---- MODULE Spec2Model ----
(***************************************************************************)
(* Lead funnel, lead store (mini CRM) and catalog store of the AVITO      *)
(* repository: src/app/main.py, src/app/db.py, src/bot.py.                 *)
(*                                                                         *)
(* Text is modelled as a sequence of one-character strings, so that        *)
(* stripping, trimming and concatenation are computed, not assumed.        *)
(* Timestamps are naturals read from the clock `now` (PostgreSQL NOW()).   *)
(***************************************************************************)
EXTENDS Integers, Sequences, FiniteSets, Bags, TLC

(***************************************************************************)
(* Bounds of the model                                                     *)
(***************************************************************************)
MaxFill == 11
MaxPrefixLen == 2
MaxLeads == 2
MaxTime == 1
MaxNotes == 2
MaxLimit == 2
MaxKits == 2
MaxImages == 2
MaxWrites == 1
MaxClients == 2
MaxOrders == 2
MaxItems == 2
MaxPayments == 1
MaxImport == 2
MaxTokens == 3
\* the quantity (in hundredths) up to which a cart line still grows
MaxQty == 200

(***************************************************************************)
(* Values                                                                  *)
(***************************************************************************)
\* Python None where text is expected, SQL NULL in a text column, SQL NULL in a
\* timestamp column, and "no value yet"; each is distinct from every real value
None == <<"None">>
NULL == "NULL"
NoTime == -1
Unset == <<"unset">>
NoError == ""

VARIABLES
    raw,          \* normalize_phone: the argument
    result,       \* normalize_phone: the returned value (Unset before the call)
    leads,        \* table leads: id -> row
    now,          \* the database clock, NOW()
    resp,         \* the response of the last HTTP request
    appended,     \* history: per lead, the stripped texts appended to its note, oldest first
    due,          \* rows the due_reminders call just made returned (lead ids, in order)
    last,         \* the last operation called and its arguments
    raised,       \* the exception the last operation raised (NoError when it returned)
    catalog_models,  \* table catalog_models: code -> row
    catalog_kits,    \* table catalog_kits: a bag of rows (the id column left out)
    catalog_images,  \* table catalog_images: a bag of rows (the id column left out)
    fetched,      \* the value the get_model call just made returned
    txn,          \* per process: the set_lead_status call it is in, and where
    rowlock,      \* per lead row: the process whose uncommitted UPDATE holds it
    committed,    \* history: the UPDATEs committed, in commit order
    FORM_STATE,   \* bot: user_id -> the form step the user is in
    INTEREST_TMP, \* bot: (user_id, lead_id) -> the interest codes ticked
    clients,      \* shop: client id -> row
    ctxn,         \* shop: per caller, the insert_client call it is in, and where
    products,     \* shop: product id -> row
    orders,       \* shop: order id -> row
    order_items,  \* shop: item id -> row
    payments,     \* shop: payment id -> row
    ret,          \* shop: the value the last call returned
    query,        \* web: the data of the request being handled
    verified,     \* web: what telegram_check_auth returned for it
    session,      \* web: the signed session of the browser
    page,         \* web: the response of the last GET handler
    alert,        \* bots: the alert or reply the last handler answered with
    calls,        \* paging callback: the store functions the handler called, in order
    CLIENT_STATE, \* shop bot: user_id -> step, cart, pending product and address
    checkout,     \* shop bot: the order being placed by client_receive_address, and where
    saving        \* web: per request, the admin_model_save call it is in, and where

catalogVars == <<catalog_models, catalog_kits, catalog_images, fetched>>
raceVars == <<txn, rowlock, committed>>
botVars == <<FORM_STATE, INTEREST_TMP>>
shopVars == <<clients, ctxn, products, orders, order_items, payments, ret>>
webVars == <<query, verified, session, page>>
tgVars == <<alert, calls>>
cbVars == <<CLIENT_STATE, checkout, saving>>
restVars == <<shopVars, webVars, tgVars, cbVars>>
otherVars == <<catalogVars, raceVars, botVars, restVars>>
vars == <<raw, result, leads, now, resp, appended, due, last, raised, catalogVars, raceVars,
          botVars, restVars>>

(***************************************************************************)
(* Generic helpers                                                         *)
(***************************************************************************)
Min(a, b) == IF a <= b THEN a ELSE b

SeqsUpTo(S, n) == UNION {[1..k -> S] : k \in 0..n}

RECURSIVE Fill(_, _)
Fill(c, k) == IF k = 0 THEN <<>> ELSE <<c>> \o Fill(c, k - 1)

Take(s, n) == SubSeq(s, 1, Min(n, Len(s)))

Range(s) == {s[i] : i \in 1..Len(s)}

(***************************************************************************)
(* normalize_phone, src/app/main.py                                        *)
(***************************************************************************)
\* the characters Python's \d matches: ASCII digits and the other Unicode
\* decimal digits (one of them, ARABIC-INDIC DIGIT THREE, stands for the class)
AsciiDigits == {"0", "1", "2", "3", "4", "5", "6", "7", "8", "9"}
UnicodeDigits == {"u0663"}
Digits == AsciiDigits \cup UnicodeDigits

\* PHONE_RE.sub("", raw or "")
IsDigit(c) == c \in Digits
PHONE_RE_sub(s) == IF s = None THEN <<>> ELSE SelectSeq(s, IsDigit)

normalize_phone_no8(r) ==
    LET s0 == PHONE_RE_sub(r)
        s2 == IF Len(s0) = 10 THEN <<"7">> \o s0 ELSE s0
    IN  IF Len(s2) # 11 \/ s2[1] # "7" THEN <<>> ELSE <<"+">> \o s2

normalize_phone(r) ==
    LET s0 == PHONE_RE_sub(r)
        s1 == IF Len(s0) = 11 /\ s0[1] = "8" THEN <<"7">> \o Tail(s0) ELSE s0
        s2 == IF Len(s1) = 10 THEN <<"7">> \o s1 ELSE s1
    IN  IF Len(s2) # 11 \/ s2[1] # "7" THEN <<>> ELSE <<"+">> \o s2

\* inputs: a free prefix, a run of "9", a free suffix
PrefixChars == {"7", "8", "1", "+", "u0663"}
SuffixChars == {"-", "7"}
PhoneInputs ==
    {None} \cup
    {pre \o Fill("9", k) \o suf :
        pre \in SeqsUpTo(PrefixChars, MaxPrefixLen),
        k \in 0..MaxFill,
        suf \in SeqsUpTo(SuffixChars, 1)}

(***************************************************************************)
(* Lead store, src/app/db.py                                               *)
(***************************************************************************)
LeadIds == 1..MaxLeads

\* uuid.uuid4(): an identifier no row has yet
FreshLeadId == CHOOSE i \in LeadIds \ DOMAIN leads : \A j \in LeadIds \ DOMAIN leads : i <= j

\* INSERT INTO leads (id, phone, source, model_code, name); the other
\* columns take the defaults of init_db
NewLeadRow(phone, source, model_code, name) ==
    [phone |-> phone, source |-> source, model_code |-> model_code, name |-> name,
     created_at |-> now, segment |-> "unknown", status |-> "new", note |-> <<>>,
     last_contact_at |-> NoTime, remind_at |-> NoTime]

InsertRow(tbl, id, row) == [i \in DOMAIN tbl \cup {id} |-> IF i = id THEN row ELSE tbl[i]]

\* UPDATE leads SET ... WHERE id = lead_id: no row, no change
UpdateLead(id, row) == IF id \in DOMAIN leads THEN [leads EXCEPT ![id] = row] ELSE leads

insert_lead(phone, source, model_code, name) ==
    /\ leads' = InsertRow(leads, FreshLeadId, NewLeadRow(phone, source, model_code, name))
    /\ appended' = InsertRow(appended, FreshLeadId, <<>>)

count_leads == Cardinality(DOMAIN leads)

Op(op, lead, text, s, n) == [op |-> op, lead |-> lead, text |-> text, s |-> s, n |-> n]

set_lead_status_validated(lead_id, status) ==
    IF status \in {"waiting", "contact_needed", "completed"}
    THEN leads' = UpdateLead(lead_id,
                     [leads[lead_id] EXCEPT !.status = status, !.last_contact_at = now])
    ELSE UNCHANGED leads

set_lead_status(lead_id, status) ==
    leads' = UpdateLead(lead_id,
                 [leads[lead_id] EXCEPT !.status = status, !.last_contact_at = now])

set_lead_segment(lead_id, segment) ==
    leads' = UpdateLead(lead_id,
                 [leads[lead_id] EXCEPT !.segment = segment, !.last_contact_at = now])

\* str.strip(): leading and trailing whitespace removed
Whitespace == {" ", "\n", "\t"}

RECURSIVE lstrip(_)
lstrip(t) == IF t # <<>> /\ Head(t) \in Whitespace THEN lstrip(Tail(t)) ELSE t

RECURSIVE rstrip(_)
rstrip(t) ==
    IF t # <<>> /\ t[Len(t)] \in Whitespace THEN rstrip(SubSeq(t, 1, Len(t) - 1)) ELSE t

strip(t) == rstrip(lstrip(t))

NoteArg_nostrip(note_text) == IF note_text = None THEN <<>> ELSE note_text

\* (note_text or "").strip()
NoteArg(note_text) == strip(IF note_text = None THEN <<>> ELSE note_text)

NoteCase_appending(note, t) == IF note = <<>> THEN t ELSE note \o <<"\n", "\n">> \o t

\* SET note = CASE WHEN note = '' THEN t ELSE t || E'\n\n' || note END
NoteCase(note, t) == IF note = <<>> THEN t ELSE t \o <<"\n", "\n">> \o note

append_lead_note(lead_id, note_text) ==
    LET t == NoteArg(note_text)
    IN  IF t = <<>>
        THEN UNCHANGED <<leads, appended>>
        ELSE /\ leads' = UpdateLead(lead_id,
                              [leads[lead_id] EXCEPT !.note = NoteCase(@, t),
                                                     !.last_contact_at = now])
             /\ appended' = IF lead_id \in DOMAIN leads
                             THEN [appended EXCEPT ![lead_id] = Append(@, t)]
                             ELSE appended

\* remind_at_iso_or_none: None or "" clears, an ISO timestamp sets
set_lead_remind_at(lead_id, remind_at_iso_or_none) ==
    IF remind_at_iso_or_none # NoTime
    THEN leads' = UpdateLead(lead_id, [leads[lead_id] EXCEPT !.remind_at = remind_at_iso_or_none])
    ELSE leads' = UpdateLead(lead_id, [leads[lead_id] EXCEPT !.remind_at = NoTime])

DueLeads_any_time == {l \in DOMAIN leads : leads[l].remind_at # NoTime}

\* WHERE remind_at IS NOT NULL AND remind_at <= NOW()
DueLeads == {l \in DOMAIN leads : leads[l].remind_at # NoTime /\ leads[l].remind_at <= now}

\* ORDER BY remind_at ASC: every order of the rows that is ascending in
\* remind_at (rows with equal remind_at come in any order)
OrderedByRemindAt(S) ==
    {p \in [1..Cardinality(S) -> S] :
        /\ \A i, j \in DOMAIN p : i # j => p[i] # p[j]
        /\ \A i, j \in DOMAIN p : i < j => leads[p[i]].remind_at <= leads[p[j]].remind_at}

\* LIMIT %s
due_reminders(limit) == {Take(p, limit) : p \in OrderedByRemindAt(DueLeads)}

(***************************************************************************)
(* Catalog store, src/app/db.py                                            *)
(***************************************************************************)
RECURSIVE SeqToBag(_)
SeqToBag(q) == IF q = <<>> THEN EmptyBag ELSE SetToBag({Head(q)}) (+) SeqToBag(Tail(q))

\* the rows of a child table that belong to a model, and the others
RowsOf(tbl, code) == [r \in {x \in DOMAIN tbl : x.model_code = code} |-> tbl[r]]
RowsNotOf(tbl, code) == [r \in {x \in DOMAIN tbl : x.model_code # code} |-> tbl[r]]

\* every order of the rows of a bag
Orders(b) == {p \in [1..BagCardinality(b) -> DOMAIN b] : SeqToBag(p) = b}

\* the collation order of the texts the model uses
Collate(t) ==
    CASE t = "birch" -> 1
      [] t = "steel" -> 2
      [] t = "https://cdn/1.jpg" -> 3
      [] t = "https://cdn/2.jpg" -> 4
      [] OTHER -> 0

\* get_model returns None when the model has no row
NoModel ==
    [found |-> FALSE, code |-> "", name |-> "", short |-> "", price_drawings |-> 0,
     drawings_url |-> "", kits |-> <<>>, images |-> <<>>]

KitOrders_unordered(code) ==
    {[i \in DOMAIN p |-> [material |-> p[i].material, price |-> p[i].price]] :
        p \in Orders(RowsOf(catalog_kits, code))}

\* SELECT material, price FROM catalog_kits WHERE model_code = %s ORDER BY material
KitOrders(code) ==
    {[i \in DOMAIN p |-> [material |-> p[i].material, price |-> p[i].price]] :
        p \in {q \in Orders(RowsOf(catalog_kits, code)) :
                  \A i, j \in DOMAIN q :
                     i < j => Collate(q[i].material) <= Collate(q[j].material)}}

\* SELECT url FROM catalog_images WHERE model_code = %s ORDER BY sort_order ASC, url ASC
ImageOrders(code) ==
    {[i \in DOMAIN p |-> p[i].url] :
        p \in {q \in Orders(RowsOf(catalog_images, code)) :
                  \A i, j \in DOMAIN q :
                     i < j => \/ q[i].sort_order < q[j].sort_order
                              \/ /\ q[i].sort_order = q[j].sort_order
                                 /\ Collate(q[i].url) <= Collate(q[j].url)}}

\* the values get_model(code) can return
get_model(code) ==
    IF code \notin DOMAIN catalog_models
    THEN {NoModel}
    ELSE {[found |-> TRUE, code |-> code,
           name |-> catalog_models[code].name,
           short |-> catalog_models[code].short,
           price_drawings |-> catalog_models[code].price_drawings,
           drawings_url |-> catalog_models[code].drawings_url,
           kits |-> k, images |-> im] :
             k \in KitOrders(code), im \in ImageOrders(code)}

\* INSERT ... ON CONFLICT (code) DO UPDATE
upsert_model(code, name, short, price_drawings, drawings_url) ==
    catalog_models' =
        InsertRow(catalog_models, code,
                  [name |-> name, short |-> short, price_drawings |-> price_drawings,
                   drawings_url |-> drawings_url, updated_at |-> now])

KitRows(code, kits) ==
    [i \in DOMAIN kits |->
        [model_code |-> code, material |-> kits[i].material, price |-> kits[i].price]]

\* DELETE the kits of the model, INSERT the given ones; an INSERT for a code
\* without a model row violates the foreign key and the transaction is rolled back
replace_kits(model_code, kits) ==
    IF kits # <<>> /\ model_code \notin DOMAIN catalog_models
    THEN /\ raised' = "ForeignKeyViolation"
         /\ UNCHANGED catalog_kits
    ELSE /\ raised' = NoError
         /\ catalog_kits' = RowsNotOf(catalog_kits, model_code) (+) SeqToBag(KitRows(model_code, kits))

\* order_num counts from 1
ImageRows(code, urls) ==
    [i \in DOMAIN urls |-> [model_code |-> code, url |-> urls[i], sort_order |-> i]]

replace_images_keeping(model_code, urls) ==
    IF urls # <<>> /\ model_code \notin DOMAIN catalog_models
    THEN /\ raised' = "ForeignKeyViolation"
         /\ UNCHANGED catalog_images
    ELSE /\ raised' = NoError
         /\ catalog_images' = catalog_images (+) SeqToBag(ImageRows(model_code, urls))

replace_images(model_code, urls) ==
    IF urls # <<>> /\ model_code \notin DOMAIN catalog_models
    THEN /\ raised' = "ForeignKeyViolation"
         /\ UNCHANGED catalog_images
    ELSE /\ raised' = NoError
         /\ catalog_images' =
               RowsNotOf(catalog_images, model_code) (+) SeqToBag(ImageRows(model_code, urls))

delete_model_no_cascade(code) ==
    /\ catalog_models' = [c \in DOMAIN catalog_models \ {code} |-> catalog_models[c]]
    /\ UNCHANGED <<catalog_kits, catalog_images>>

\* DELETE FROM catalog_models; ON DELETE CASCADE removes the kits and the images
delete_model(code) ==
    /\ catalog_models' = [c \in DOMAIN catalog_models \ {code} |-> catalog_models[c]]
    /\ catalog_kits' = RowsNotOf(catalog_kits, code)
    /\ catalog_images' = RowsNotOf(catalog_images, code)

(***************************************************************************)
(* set_lead_status called from two processes, src/app/db.py.  The function *)
(* opens a connection, executes one UPDATE and commits; PostgreSQL makes   *)
(* the second UPDATE of a row wait until the first one has committed.      *)
(***************************************************************************)
Procs == {"web", "bot"}
NoProc == "none"
IdleTxn == [pc |-> "idle", lead |-> 0, status |-> "", writes |-> 0]

\* with get_conn() as conn
connect(p, lead_id, status) ==
    /\ txn[p].pc = "idle"
    /\ txn[p].writes < MaxWrites
    /\ txn' = [txn EXCEPT ![p] = [pc |-> "connected", lead |-> lead_id, status |-> status,
                                   writes |-> @.writes + 1]]
    /\ UNCHANGED <<leads, rowlock, committed>>

\* cur.execute(UPDATE leads SET status = %s, last_contact_at = NOW() WHERE id = %s):
\* waits while another uncommitted UPDATE holds the row
execute_update(p) ==
    /\ txn[p].pc = "connected"
    /\ txn[p].lead \in DOMAIN leads => rowlock[txn[p].lead] = NoProc
    /\ txn' = [txn EXCEPT ![p].pc = "executed"]
    /\ rowlock' = IF txn[p].lead \in DOMAIN leads
                   THEN [rowlock EXCEPT ![txn[p].lead] = p]
                   ELSE rowlock
    /\ UNCHANGED <<leads, committed>>

\* the calls of other processes on the same lead that are under way
Concurrent(p) == {q \in Procs \ {p} : txn[q].pc # "idle" /\ txn[q].lead = txn[p].lead}

\* the history after p commits: an UPDATE that matched no row wrote nothing
Committed(p) ==
    IF txn[p].lead \in DOMAIN leads
    THEN Append(committed, [proc |-> p, lead |-> txn[p].lead, status |-> txn[p].status,
                            with |-> Concurrent(p)])
    ELSE committed

commit_unless_written(p) ==
    /\ txn[p].pc = "executed"
    /\ IF \E i \in DOMAIN committed : committed[i].lead = txn[p].lead
       THEN /\ raised' = "StaleDataError"
            /\ UNCHANGED <<leads, committed>>
       ELSE /\ raised' = NoError
            /\ set_lead_status(txn[p].lead, txn[p].status)
            /\ committed' = Committed(p)
    /\ rowlock' = [l \in LeadIds |-> IF rowlock[l] = p THEN NoProc ELSE rowlock[l]]
    /\ txn' = [txn EXCEPT ![p].pc = "idle"]

\* conn.commit(): the new row version becomes the row, the lock is released
commit(p) ==
    /\ txn[p].pc = "executed"
    /\ raised' = NoError
    /\ set_lead_status(txn[p].lead, txn[p].status)
    /\ committed' = Committed(p)
    /\ rowlock' = [l \in LeadIds |-> IF rowlock[l] = p THEN NoProc ELSE rowlock[l]]
    /\ txn' = [txn EXCEPT ![p].pc = "idle"]

\* append_lead_note as the transaction it is (src/app/db.py): text = strip(),
\* a blank text returns before get_conn(); otherwise the connection is opened
note_connect(p, lead_id, note_text) ==
    /\ txn[p].pc = "idle"
    /\ txn[p].writes < MaxWrites + 1
    /\ txn' = IF NoteArg(note_text) = <<>>
               THEN txn
               ELSE [txn EXCEPT ![p] = [pc |-> "connected", lead |-> lead_id, status |-> "",
                                        text |-> NoteArg(note_text), row |-> <<>>,
                                        matched |-> FALSE,
                                        writes |-> @.writes + 1]]
    /\ UNCHANGED <<leads, rowlock, committed>>

\* the same UPDATE run without waiting for the row's lock
note_execute_unlocked(p) ==
    /\ txn[p].pc = "connected"
    /\ txn' = [txn EXCEPT ![p].pc = "executed",
                          ![p].matched = txn[p].lead \in DOMAIN leads,
                          ![p].row = IF txn[p].lead \in DOMAIN leads
                                     THEN NoteCase(leads[txn[p].lead].note, txn[p].text)
                                     ELSE <<>>]
    /\ rowlock' = IF txn[p].lead \in DOMAIN leads
                   THEN [rowlock EXCEPT ![txn[p].lead] = p]
                   ELSE rowlock
    /\ UNCHANGED <<leads, committed>>

\* cur.execute(UPDATE leads SET note = CASE ... END, last_contact_at = NOW()
\* WHERE id = %s): waits while another uncommitted UPDATE holds the row, then
\* builds the new row version from the row as committed
note_execute(p) ==
    /\ txn[p].pc = "connected"
    /\ txn[p].lead \in DOMAIN leads => rowlock[txn[p].lead] = NoProc
    /\ txn' = [txn EXCEPT ![p].pc = "executed",
                          ![p].matched = txn[p].lead \in DOMAIN leads,
                          ![p].row = IF txn[p].lead \in DOMAIN leads
                                     THEN NoteCase(leads[txn[p].lead].note, txn[p].text)
                                     ELSE <<>>]
    /\ rowlock' = IF txn[p].lead \in DOMAIN leads
                   THEN [rowlock EXCEPT ![txn[p].lead] = p]
                   ELSE rowlock
    /\ UNCHANGED <<leads, committed>>

\* conn.commit(): the new row version becomes the row, the lock is released;
\* an UPDATE that matched no row wrote nothing
note_commit(p) ==
    /\ txn[p].pc = "executed"
    /\ "row" \in DOMAIN txn[p]
    /\ leads' = IF txn[p].matched
                 THEN [leads EXCEPT ![txn[p].lead].note = txn[p].row,
                                    ![txn[p].lead].last_contact_at = now]
                 ELSE leads
    /\ committed' = IF txn[p].matched
                     THEN Append(committed, [proc |-> p, lead |-> txn[p].lead,
                                             text |-> txn[p].text, with |-> Concurrent(p)])
                     ELSE committed
    /\ rowlock' = [l \in LeadIds |-> IF rowlock[l] = p THEN NoProc ELSE rowlock[l]]
    /\ txn' = [txn EXCEPT ![p] = [IdleTxn EXCEPT !.writes = txn[p].writes]]

(***************************************************************************)
(* The admin bot, src/bot.py: the lead form kept in FORM_STATE and         *)
(* INTEREST_TMP, the text handler and the callback handler.                *)
(***************************************************************************)
ADMIN_IDS == {1}
Users == {1, 2}
\* a check that lets every user in
is_admin_anyone(user_id) == user_id \in Users

\* bool(u and u.id in ADMIN_IDS)
is_admin(user_id) == user_id \in ADMIN_IDS

\* FORM_STATE.get(user_id) of a user who is in no form
NoForm == [lead_id |-> 0, step |-> "none"]

form_set(user_id, lead_id, step) ==
    [FORM_STATE EXCEPT ![user_id] = [lead_id |-> lead_id, step |-> step]]

form_get(user_id) == FORM_STATE[user_id]

form_clear(user_id) == [FORM_STATE EXCEPT ![user_id] = NoForm]

\* INTEREST_TMP[key] = selected
InterestPut(key, selected) ==
    [k \in DOMAIN INTEREST_TMP \cup {key} |-> IF k = key THEN selected ELSE INTEREST_TMP[k]]

\* INTEREST_TMP.get(key, set())
InterestGet(key) == IF key \in DOMAIN INTEREST_TMP THEN INTEREST_TMP[key] ELSE {}

\* from app.db import update_lead_profile: app.db defines no such name
db_update_profile == "ImportError"

\* datetime.now().strftime("%d.%m.%Y %H:%M")
strftime(t) == <<"01.01 00:00", "01.01 00:01", "01.01 00:02", "01.01 00:03">>[t + 1]

\* f"[{stamp}] {txt}"
StampedNote(txt) == <<"[", strftime(now), "]", " ">> \o txt

\* the handler returns or only answers: nothing is written
Answer ==
    /\ raised' = NoError
    /\ UNCHANGED <<leads, appended, FORM_STATE, INTEREST_TMP>>

\* the handler is left by an exception before anything is written
Raise(exc) ==
    /\ raised' = exc
    /\ UNCHANGED <<leads, appended, FORM_STATE, INTEREST_TMP>>

\* show_form_step: form_set first, then the step's screen; the interest screen
\* reads the lead (which has no interest column), done leaves the form
show_form_step(user_id, lead_id, step) ==
    CASE step = "interest" ->
            /\ FORM_STATE' = form_set(user_id, lead_id, step)
            /\ IF lead_id \in DOMAIN leads
               THEN /\ INTEREST_TMP' = InterestPut(<<user_id, lead_id>>, {})
                    /\ raised' = NoError
               ELSE /\ raised' = "AttributeError"
                    /\ UNCHANGED INTEREST_TMP
      [] step = "done" ->
            /\ FORM_STATE' = form_clear(user_id)
            /\ raised' = NoError
            /\ UNCHANGED INTEREST_TMP
      [] OTHER ->
            /\ FORM_STATE' = form_set(user_id, lead_id, step)
            /\ raised' = NoError
            /\ UNCHANGED INTEREST_TMP

\* /start: a reply with the main keyboard (or the refusal); FORM_STATE is not touched
cmd_start(user_id) == Answer

on_text(user_id, text) ==
    LET txt == strip(text)
        st == form_get(user_id)
    IN  IF ~is_admin(user_id) THEN Answer
        ELSE IF st # NoForm /\ st.step \in {"full_name", "city"} THEN Raise(db_update_profile)
        ELSE IF st # NoForm /\ st.step = "note"
             THEN /\ append_lead_note(st.lead_id, StampedNote(txt))
                  /\ show_form_step(user_id, st.lead_id, "done")
        ELSE Answer

on_callback(user_id, data) ==
    LET lead_id == data.lead_id
        st == form_get(user_id)
        key == <<user_id, lead_id>>
    IN  IF ~is_admin(user_id) THEN Answer
        ELSE CASE data.cmd = "lead" -> Answer
          [] data.cmd = "lead_form" ->
                /\ show_form_step(user_id, lead_id, "full_name")
                /\ UNCHANGED <<leads, appended>>
          [] data.cmd = "form_back" ->
                /\ show_form_step(user_id, lead_id, data.arg)
                /\ UNCHANGED <<leads, appended>>
          [] data.cmd = "form_skip" ->
                IF st = NoForm \/ st.lead_id # lead_id THEN Answer
                ELSE /\ show_form_step(user_id, lead_id,
                            CASE st.step = "full_name" -> "city"
                              [] st.step = "city" -> "segment"
                              [] st.step = "note" -> "done"
                              [] OTHER -> st.step)
                     /\ UNCHANGED <<leads, appended>>
          [] data.cmd = "form_set_segment" ->
                /\ set_lead_segment(lead_id, data.arg)
                /\ show_form_step(user_id, lead_id, "interest")
                /\ UNCHANGED appended
          [] data.cmd = "form_interest_toggle" ->
                /\ INTEREST_TMP' = InterestPut(key,
                        IF data.arg \in InterestGet(key)
                        THEN InterestGet(key) \ {data.arg}
                        ELSE InterestGet(key) \cup {data.arg})
                /\ raised' = NoError
                /\ UNCHANGED <<leads, appended, FORM_STATE>>
          [] data.cmd = "form_interest_clear" ->
                /\ INTEREST_TMP' = InterestPut(key, {})
                /\ raised' = NoError
                /\ UNCHANGED <<leads, appended, FORM_STATE>>
          [] data.cmd = "form_interest_done" -> Raise(db_update_profile)
          [] data.cmd = "form_set_status" ->
                /\ set_lead_status(lead_id, data.arg)
                /\ show_form_step(user_id, lead_id, "note")
                /\ UNCHANGED <<appended, INTEREST_TMP>>
          [] data.cmd = "set_status" ->
                /\ set_lead_status(lead_id, data.arg)
                /\ raised' = NoError
                /\ UNCHANGED <<appended, FORM_STATE, INTEREST_TMP>>
          [] data.cmd = "set_segment" ->
                /\ set_lead_segment(lead_id, data.arg)
                /\ raised' = NoError
                /\ UNCHANGED <<appended, FORM_STATE, INTEREST_TMP>>
          [] data.cmd = "lead_note" ->
                /\ FORM_STATE' = form_set(user_id, lead_id, "note")
                /\ raised' = NoError
                /\ UNCHANGED <<leads, appended, INTEREST_TMP>>
          [] data.cmd = "set_remind" ->
                \* 2h, 3d and tom11 set a later time, clear sets None, any other
                \* mode writes nothing
                /\ CASE data.arg \in {"2h", "tom11"} -> set_lead_remind_at(lead_id, now + 1)
                     [] data.arg = "3d" -> set_lead_remind_at(lead_id, now + 2)
                     [] data.arg = "clear" -> set_lead_remind_at(lead_id, NoTime)
                     [] OTHER -> UNCHANGED leads
                /\ raised' = NoError
                /\ UNCHANGED <<appended, FORM_STATE, INTEREST_TMP>>
          [] OTHER -> Answer

(***************************************************************************)
(* The shop store, src/shop_db.py: clients, products, orders, order items  *)
(* and payments.  Rows are kept per id; uuid4 is the next unused number.   *)
(***************************************************************************)
\* tg_id None (stored as NULL)
NoTg == -1
Callers == {1, 2}
IdleCall == [pc |-> "idle", tg_id |-> NoTg, phone |-> "", name |-> "", address |-> "", cid |-> 0]

\* the committed clients with a Telegram id
ClientsOf(tg_id) == {c \in DOMAIN clients : clients[c].tg_id = tg_id}

\* if tg_id: SELECT id FROM clients WHERE tg_id = %s; return the id when there is a row
ic_select(p, tg_id, phone, name, address) ==
    /\ ctxn[p].pc = "idle"
    /\ IF tg_id \notin {NoTg, 0} /\ ClientsOf(tg_id) # {}
       THEN /\ ret' = CHOOSE c \in ClientsOf(tg_id) : TRUE
            /\ UNCHANGED ctxn
       ELSE /\ Cardinality(DOMAIN clients)
                   + Cardinality({q \in Callers : ctxn[q].pc # "idle"}) < MaxClients
            /\ ctxn' = [ctxn EXCEPT ![p] = [pc |-> "selected", tg_id |-> tg_id, phone |-> phone,
                                             name |-> name, address |-> address, cid |-> 0]]
            /\ ret' = 0
    /\ raised' = NoError
    /\ UNCHANGED clients

\* the uncommitted INSERTs of other callers with the same (non-NULL) tg_id
PendingSame(p) ==
    {q \in Callers \ {p} : ctxn[q].pc = "inserted" /\ ctxn[q].tg_id = ctxn[p].tg_id
                              /\ ctxn[p].tg_id # NoTg}

ic_insert_unchecked(p) ==
    /\ ctxn[p].pc = "selected"
    /\ raised' = NoError
    /\ ctxn' = [ctxn EXCEPT ![p].pc = "inserted",
                             ![p].cid = Cardinality(DOMAIN clients)
                                 + Cardinality({q \in Callers : ctxn[q].pc = "inserted"}) + 1]
    /\ UNCHANGED <<clients, ret>>

\* INSERT INTO clients: tg_id is UNIQUE, so the INSERT waits for an uncommitted
\* row with the same tg_id and fails when a committed one exists
ic_insert(p) ==
    /\ ctxn[p].pc = "selected"
    /\ PendingSame(p) = {}
    /\ IF ctxn[p].tg_id # NoTg /\ ClientsOf(ctxn[p].tg_id) # {}
       THEN /\ raised' = "UniqueViolation"
            /\ ctxn' = [ctxn EXCEPT ![p] = IdleCall]
       ELSE /\ raised' = NoError
            /\ ctxn' = [ctxn EXCEPT ![p].pc = "inserted",
                                     ![p].cid = Cardinality(DOMAIN clients)
                                         + Cardinality({q \in Callers : ctxn[q].pc = "inserted"}) + 1]
    /\ UNCHANGED <<clients, ret>>

\* conn.commit(); return str(cid)
ic_commit(p) ==
    /\ ctxn[p].pc = "inserted"
    /\ clients' = InsertRow(clients, ctxn[p].cid,
                            [tg_id |-> ctxn[p].tg_id, phone |-> ctxn[p].phone,
                             name |-> ctxn[p].name, address |-> ctxn[p].address,
                             created_at |-> now])
    /\ ret' = ctxn[p].cid
    /\ ctxn' = [ctxn EXCEPT ![p] = IdleCall]
    /\ raised' = NoError

\* a NULL reference
NoId == 0

\* uuid4 for a table that never loses rows
FreshId(tbl) == Cardinality(DOMAIN tbl) + 1

\* UPDATE ... WHERE id = %s: no row, no change
UpdateRow(tbl, id, row) == IF id \in DOMAIN tbl THEN [tbl EXCEPT ![id] = row] ELSE tbl

\* the products with a code (code is UNIQUE)
ProductsOf(tbl, code) == {i \in DOMAIN tbl : tbl[i].code = code}

\* SELECT id FROM products WHERE code = %s, then UPDATE the row or INSERT one
UpsertInto(tbl, code, name, description, unit, price) ==
    IF ProductsOf(tbl, code) # {}
    THEN LET i == CHOOSE i \in ProductsOf(tbl, code) : TRUE
         IN  [tbl EXCEPT ![i] = [@ EXCEPT !.name = name, !.description = description,
                                          !.unit = unit, !.price = price]]
    ELSE InsertRow(tbl, FreshId(tbl),
                   [code |-> code, name |-> name, description |-> description,
                    unit |-> unit, price |-> price, created_at |-> now])

upsert_product(code, name, description, unit, price) ==
    products' = UpsertInto(products, code, name, description, unit, price)

\* for it in items: skip the item without code or name, upsert the others in order
RECURSIVE ProductsAfter(_, _)
ProductsAfter(tbl, items) ==
    IF items = <<>> THEN tbl
    ELSE LET it == Head(items)
         IN  ProductsAfter(
                 IF it.code = "" \/ it.name = ""
                 THEN tbl
                 ELSE UpsertInto(tbl, it.code, it.name, it.description, it.unit, it.price),
                 Tail(items))

replace_products_truncating(items) ==
    products' = ProductsAfter(<<>>, items)

replace_products(items) ==
    products' = ProductsAfter(products, items)

\* INSERT INTO orders (id, client_id, status, total_amount) VALUES (oid, client_id, 'new', 0)
create_order(client_id) ==
    IF client_id # NoId /\ client_id \notin DOMAIN clients
    THEN /\ raised' = "ForeignKeyViolation"
         /\ UNCHANGED <<orders, ret>>
    ELSE /\ raised' = NoError
         /\ orders' = InsertRow(orders, FreshId(orders),
                            [client_id |-> client_id, created_at |-> now, status |-> "new",
                             total_amount |-> 0, shipped_at |-> NoTime,
                             delivered_at |-> NoTime, paid_at |-> NoTime])
         /\ ret' = FreshId(orders)

\* a float with two decimals times another, stored in a NUMERIC(12,2) column:
\* money and quantities are counted in hundredths, the product is rounded
Numeric2(hundredths_squared) == (hundredths_squared + 50) \div 100

ItemAmount_truncating(quantity, price) == (quantity * price) \div 100

\* float("nan"): not a number, kept by float arithmetic and by NUMERIC columns
NaN == -1000000

\* amount = (quantity or 0) * (price or 0); nan is truthy and nan * price is nan
ItemAmount(quantity, price) == IF quantity = NaN THEN NaN ELSE Numeric2(quantity * price)

add_order_item(order_id, product_id, quantity, price) ==
    IF \/ order_id # NoId /\ order_id \notin DOMAIN orders
       \/ product_id # NoId /\ product_id \notin DOMAIN products
    THEN /\ raised' = "ForeignKeyViolation"
         /\ UNCHANGED order_items
    ELSE /\ raised' = NoError
         /\ order_items' = InsertRow(order_items, FreshId(order_items),
                                 [order_id |-> order_id, product_id |-> product_id,
                                  quantity |-> quantity, price |-> price,
                                  amount |-> ItemAmount(quantity, price)])

\* the items of an order
ItemsOf(order_id) == {i \in DOMAIN order_items : order_items[i].order_id = order_id}

RECURSIVE SumAmount(_)
SumAmount(ids) ==
    IF ids = {} THEN 0
    ELSE IF \E i \in ids : order_items[i].amount = NaN THEN NaN
    ELSE LET i == CHOOSE i \in ids : TRUE
         IN  order_items[i].amount + SumAmount(ids \ {i})

update_order_total_adding(order_id) ==
    orders' = UpdateRow(orders, order_id,
                  [orders[order_id] EXCEPT !.total_amount = @ + SumAmount(ItemsOf(order_id))])

\* SELECT COALESCE(SUM(amount), 0) ...; UPDATE orders SET total_amount = total
update_order_total(order_id) ==
    orders' = UpdateRow(orders, order_id,
                  [orders[order_id] EXCEPT !.total_amount = SumAmount(ItemsOf(order_id))])

\* NOW() assigned to a TEXT column
NowText(t) == <<"2026-01-01 00:00:00+00", "2026-01-01 00:01:00+00",
                "2026-01-01 00:02:00+00", "2026-01-01 00:03:00+00">>[t + 1]

\* the SET list is built from fields: a value equal to the string "NOW()" is
\* written into the statement as NOW(), every other value is a parameter
StatusField(status) == IF status = "NOW()" THEN NowText(now) ELSE status

set_order_status_unstamped(order_id, status) ==
    orders' = UpdateRow(orders, order_id,
                  [orders[order_id] EXCEPT !.status = StatusField(status)])

set_order_status(order_id, status) ==
    orders' = UpdateRow(orders, order_id,
                  [orders[order_id] EXCEPT
                      !.status = StatusField(status),
                      !.shipped_at = IF status = "shipped" THEN now ELSE @,
                      !.delivered_at = IF status = "delivered" THEN now ELSE @,
                      !.paid_at = IF status = "paid" THEN now ELSE @])

record_payment_when_covered(order_id, amount, method) ==
    IF order_id # NoId /\ order_id \notin DOMAIN orders
    THEN /\ raised' = "ForeignKeyViolation"
         /\ UNCHANGED <<payments, orders>>
    ELSE /\ raised' = NoError
         /\ payments' = InsertRow(payments, FreshId(payments),
                              [order_id |-> order_id, amount |-> amount,
                               payment_date |-> now, method |-> method])
         /\ orders' = IF order_id \in DOMAIN orders /\ amount >= orders[order_id].total_amount
                       THEN [orders EXCEPT ![order_id].status = "paid", ![order_id].paid_at = now]
                       ELSE orders

\* INSERT INTO payments; UPDATE orders SET status = 'paid', paid_at = NOW(); one commit
record_payment(order_id, amount, method) ==
    IF order_id # NoId /\ order_id \notin DOMAIN orders
    THEN /\ raised' = "ForeignKeyViolation"
         /\ UNCHANGED <<payments, orders>>
    ELSE /\ raised' = NoError
         /\ payments' = InsertRow(payments, FreshId(payments),
                              [order_id |-> order_id, amount |-> amount,
                               payment_date |-> now, method |-> method])
         /\ orders' = UpdateRow(orders, order_id,
                           [orders[order_id] EXCEPT !.status = "paid", !.paid_at = now])

(***************************************************************************)
(* POST /go/submit, src/app/main.py                                        *)
(***************************************************************************)
NoCookie == 0
NoResponse == [status |-> 0, location |-> <<>>, lead_id |-> NoCookie]

RedirectResponse(location) == [status |-> 303, location |-> location, lead_id |-> NoCookie]

\* agree is None when the consent checkbox is not sent
submit_phone_no_consent_check(phone, agree, model_code, src) ==
    LET phone_norm == normalize_phone(phone)
    IN  IF phone_norm = <<>>
        THEN /\ resp' = RedirectResponse(<<"/go/", model_code, "?src=", src>>)
             /\ UNCHANGED <<leads, appended>>
        ELSE /\ DOMAIN leads # LeadIds
             /\ insert_lead(phone_norm, src, IF model_code = "" THEN NULL ELSE model_code, NULL)
             /\ resp' = [RedirectResponse(<<"/models/", model_code>>)
                            EXCEPT !.lead_id = FreshLeadId]

submit_phone(phone, agree, model_code, src) ==
    IF agree = NULL
    THEN /\ resp' = RedirectResponse(<<"/go/", model_code, "?src=", src>>)
         /\ UNCHANGED <<leads, appended>>
    ELSE LET phone_norm == normalize_phone(phone)
         IN  IF phone_norm = <<>>
             THEN /\ resp' = RedirectResponse(<<"/go/", model_code, "?src=", src>>)
                  /\ UNCHANGED <<leads, appended>>
             ELSE /\ DOMAIN leads # LeadIds
                  /\ insert_lead(phone_norm, src, IF model_code = "" THEN NULL ELSE model_code, NULL)
                  /\ resp' = [RedirectResponse(<<"/models/", model_code>>)
                                 EXCEPT !.lead_id = FreshLeadId]

(***************************************************************************)
(* Inputs                                                                  *)
(***************************************************************************)
\* "89991234567", "9991234568", "+7 (999) 123-45-67", "12345", "79991234"
SubmittedPhones ==
    {<<"8", "9", "9", "9", "1", "2", "3", "4", "5", "6", "7">>,
     <<"9", "9", "9", "1", "2", "3", "4", "5", "6", "8">>,
     <<"+", "7", " ", "(", "9", "9", "9", ")", " ", "1", "2", "3", "-", "4", "5", "-", "6", "7">>,
     <<"1", "2", "3", "4", "5">>,
     <<"7", "9", "9", "9", "1", "2", "3", "4">>}
AgreeValues == {NULL, "on"}
ModelCodes == {"", "polar-6"}
Sources == {"unknown", "qr"}
StatusValues == {"waiting", "no-such-status"}
SegmentValues == {"private", "no-such-segment"}
NoteTexts == {None, <<>>, <<" ", "\n">>, <<"a">>, <<" ", "b", " ", "c", "\n">>}
RemindTimes == {NoTime} \cup (0..(MaxTime + 1))
Limits == 1..MaxLimit
\* lead identifiers a caller can pass: those of the rows and one of no row
LeadArgs == LeadIds \cup {MaxLeads + 1}

CatalogCodes == {"polar-6", "taiga-4"}
ModelNames == {"Polar 6", "Taiga 4"}
KitChoices ==
    {[material |-> "birch", price |-> 10],
     [material |-> "steel", price |-> 10],
     [material |-> "steel", price |-> 20]}
KitLists == SeqsUpTo(KitChoices, MaxKits)
ImageUrls == {"https://cdn/1.jpg", "https://cdn/2.jpg"}
ImageLists == SeqsUpTo(ImageUrls, MaxImages)

(***************************************************************************)
(* Telegram login, src/app/main.py.  Texts are sequences of characters; a  *)
(* payload is a function from keys to values.  SHA-256 and HMAC-SHA-256    *)
(* are taken as collision free: a digest is the pair of its inputs.        *)
(***************************************************************************)
HashKey == <<"h", "a", "s", "h">>

\* code points of the characters payloads are made of
Ord(c) ==
    CASE c = "\n" -> 10
      [] c = "1" -> 49
      [] c = "2" -> 50
      [] c = "5" -> 53
      [] c = "7" -> 55
      [] c = "=" -> 61
      [] c = "a" -> 97
      [] c = "b" -> 98
      [] c = "d" -> 100
      [] c = "i" -> 105
      [] OTHER -> 0

\* str < str
RECURSIVE StrLess(_, _)
StrLess(x, y) ==
    IF y = <<>> THEN FALSE
    ELSE IF x = <<>> THEN TRUE
    ELSE IF Head(x) # Head(y) THEN Ord(Head(x)) < Ord(Head(y))
    ELSE StrLess(Tail(x), Tail(y))

\* [f"{k}={v}" for k, v in data.items() if k != "hash"]
Pairs_dropping(data) == {k \o <<"=">> : k \in DOMAIN data \ {HashKey}}

Pairs(data) == {k \o <<"=">> \o data[k] : k \in DOMAIN data \ {HashKey}}

\* pairs.sort(); "\n".join(pairs)
RECURSIVE JoinSorted(_)
JoinSorted(S) ==
    IF S = {} THEN <<>>
    ELSE LET least == CHOOSE x \in S : \A y \in S \ {x} : StrLess(x, y)
         IN  IF S = {least} THEN least
             ELSE least \o <<"\n">> \o JoinSorted(S \ {least})

data_check_string(data) == JoinSorted(Pairs(data))

\* hashlib.sha256(bot_token.encode()).digest()
sha256(text) == <<"sha256", text>>

\* hmac.new(key, msg, hashlib.sha256).hexdigest()
hmac_hexdigest(key, msg) == [key |-> key, msg |-> msg]

telegram_check_auth(data, bot_token) ==
    IF HashKey \notin DOMAIN data THEN FALSE
    ELSE hmac_hexdigest(sha256(bot_token), data_check_string(data)) = data[HashKey]

\* the environment of the web application
TELEGRAM_BOT_TOKEN == "T1"

\* a request without parameters, a browser without session, no response yet
NoQuery == <<>>
NoSession == [is_admin |-> FALSE, tg_user_id |-> 0]
NoPage == [status |-> 0, location |-> <<>>, drawings_url |-> ""]

InitWeb ==
    /\ query = NoQuery
    /\ verified = "unset"
    /\ session = NoSession
    /\ page = NoPage

\* ADMIN_IDS of the web application, from ADMIN_TG_IDS = "5"
get_admin_ids == {5}

IdKey == <<"i", "d">>

Digit(c) == CASE c = "0" -> 0 [] c = "1" -> 1 [] c = "2" -> 2 [] c = "5" -> 5 [] c = "7" -> 7 [] OTHER -> -1

\* int(text) of decimal digits; -1 stands for the ValueError of any other text
RECURSIVE int(_)
int(text) ==
    IF text = <<>> THEN -1
    ELSE IF Digit(text[Len(text)]) < 0 THEN -1
    ELSE IF Len(text) = 1 THEN Digit(text[1])
    ELSE LET high == int(SubSeq(text, 1, Len(text) - 1))
         IN  IF high < 0 THEN -1 ELSE 10 * high + Digit(text[Len(text)])

\* int(data.get("id", "0"))
user_id_of(data) == IF IdKey \in DOMAIN data THEN int(data[IdKey]) ELSE 0

HTMLResponse(status) == [status |-> status, location |-> <<>>, drawings_url |-> ""]
PageRedirect(location) == [status |-> 303, location |-> location, drawings_url |-> ""]

\* the session and the response of GET /admin/auth/telegram
admin_auth_telegram_any_id(sess, data) ==
    IF ~telegram_check_auth(data, TELEGRAM_BOT_TOKEN)
    THEN [session |-> sess, page |-> HTMLResponse(403), raised |-> NoError]
    ELSE IF user_id_of(data) < 0
    THEN [session |-> sess, page |-> HTMLResponse(500), raised |-> "ValueError"]
    ELSE [session |-> [is_admin |-> TRUE, tg_user_id |-> user_id_of(data)],
          page |-> PageRedirect(<<"/admin/models">>), raised |-> NoError]

admin_auth_telegram(sess, data) ==
    IF ~telegram_check_auth(data, TELEGRAM_BOT_TOKEN)
    THEN [session |-> sess, page |-> HTMLResponse(403), raised |-> NoError]
    ELSE IF user_id_of(data) < 0
    THEN [session |-> sess, page |-> HTMLResponse(500), raised |-> "ValueError"]
    ELSE IF user_id_of(data) \notin get_admin_ids
    THEN [session |-> sess, page |-> HTMLResponse(403), raised |-> NoError]
    ELSE [session |-> [is_admin |-> TRUE, tg_user_id |-> user_id_of(data)],
          page |-> PageRedirect(<<"/admin/models">>), raised |-> NoError]

\* the session and the response of GET /admin/logout
admin_logout(sess) ==
    [session |-> NoSession, page |-> PageRedirect(<<"/admin/login">>), raised |-> NoError]

\* the requests to POST /admin/models/save that can be under way together
Requests == {1, 2}
IdleSave == [pc |-> "idle", code |-> "", kits |-> <<>>, urls |-> <<>>]

\* a check that lets every session in
require_admin_open(sess) == TRUE

\* require_admin: HTTPException(401) unless the session holds is_admin
require_admin(sess) == sess.is_admin

\* what a route answers: the response, the store functions called, the exception
Routed(response, store_calls, exc) == [page |-> response, calls |-> store_calls, raised |-> exc]

\* GET /admin/models
admin_models(sess) ==
    IF ~require_admin(sess) THEN Routed(HTMLResponse(401), <<>>, "HTTPException")
    ELSE Routed(HTMLResponse(200), <<"list_models">>, NoError)

\* GET /admin/models/new
admin_model_new(sess) ==
    IF ~require_admin(sess) THEN Routed(HTMLResponse(401), <<>>, "HTTPException")
    ELSE Routed(HTMLResponse(200), <<>>, NoError)

\* GET /admin/models/{code}
admin_model_edit(sess, code) ==
    IF ~require_admin(sess) THEN {Routed(HTMLResponse(401), <<>>, "HTTPException")}
    ELSE {Routed(HTMLResponse(IF model.found THEN 200 ELSE 404), <<"get_model">>, NoError) :
            model \in get_model(code)}

\* POST /admin/models/save up to upsert_model: 401 without the admin flag, 400
\* without code or name, else the model row is written and committed.  kits and
\* urls are kits_text and images_text as parse_kits_text and parse_images_text
\* return them
admin_model_save(r, code, name, drawings_url, kits, urls) ==
    /\ saving[r].pc = "idle"
    /\ IF ~require_admin(session)
       THEN /\ page' = HTMLResponse(401)
            /\ calls' = <<>>
            /\ raised' = "HTTPException"
            /\ UNCHANGED <<catalog_models, saving>>
       ELSE IF code = "" \/ name = ""
       THEN /\ page' = HTMLResponse(400)
            /\ calls' = <<>>
            /\ raised' = NoError
            /\ UNCHANGED <<catalog_models, saving>>
       ELSE /\ upsert_model(code, name, "", 0, drawings_url)
            /\ calls' = <<"upsert_model">>
            /\ raised' = NoError
            /\ saving' = [saving EXCEPT ![r] = [pc |-> "kits", code |-> code,
                                                kits |-> kits, urls |-> urls]]
            /\ UNCHANGED page

\* the same step with the exception swallowed
save_kits_continuing(r) ==
    /\ saving[r].pc = "kits"
    /\ replace_kits(saving[r].code, saving[r].kits)
    /\ calls' = <<"replace_kits">>
    /\ saving' = [saving EXCEPT ![r].pc = "images"]
    /\ UNCHANGED page

\* replace_kits(model_code=code, kits=kits): an exception ends the request with 500
save_kits(r) ==
    /\ saving[r].pc = "kits"
    /\ replace_kits(saving[r].code, saving[r].kits)
    /\ calls' = <<"replace_kits">>
    /\ IF raised' = NoError
       THEN /\ saving' = [saving EXCEPT ![r].pc = "images"]
            /\ UNCHANGED page
       ELSE /\ saving' = [saving EXCEPT ![r] = IdleSave]
            /\ page' = HTMLResponse(500)

\* replace_images(model_code=code, urls=urls), then the redirect to the model's form
save_images(r) ==
    /\ saving[r].pc = "images"
    /\ replace_images(saving[r].code, saving[r].urls)
    /\ calls' = <<"replace_images">>
    /\ saving' = [saving EXCEPT ![r] = IdleSave]
    /\ page' = IF raised' = NoError
                THEN PageRedirect(<<"/admin/models/", saving[r].code>>)
                ELSE HTMLResponse(500)

\* POST /admin/models/delete
admin_model_delete(code) ==
    IF ~require_admin(session)
    THEN /\ page' = HTMLResponse(401)
         /\ calls' = <<>>
         /\ raised' = "HTTPException"
         /\ UNCHANGED <<catalog_models, catalog_kits, catalog_images>>
    ELSE /\ delete_model(code)
         /\ page' = PageRedirect(<<"/admin/models">>)
         /\ calls' = <<"delete_model">>
         /\ raised' = NoError

\* a lead_id cookie sent with an empty value
EmptyCookie == -1

\* the responses of GET /drawings/{model_code}, one for each value get_model can return
drawings_page_ungated(lead_id, model_code) ==
    {IF ~model.found THEN HTMLResponse(404)
     ELSE IF model.drawings_url = "" THEN HTMLResponse(404)
     ELSE [status |-> 200, location |-> <<>>, drawings_url |-> model.drawings_url] :
        model \in get_model(model_code)}

drawings_page(lead_id, model_code) ==
    IF lead_id = NoCookie \/ lead_id = EmptyCookie
    THEN {PageRedirect(<<"/go/", model_code, "?src=drawings">>)}
    ELSE {IF ~model.found THEN HTMLResponse(404)
          ELSE IF model.drawings_url = "" THEN HTMLResponse(404)
          ELSE [status |-> 200, location |-> <<>>, drawings_url |-> model.drawings_url] :
             model \in get_model(model_code)}

(***************************************************************************)
(* The "leads:<offset>:<limit>" callback of the two lead bots,             *)
(* src/app/bot.py and src/bot.py.  The callback data is a text; split and  *)
(* int are computed on it.                                                 *)
(***************************************************************************)
NoAlert == "none"

InitTg ==
    /\ alert = NoAlert
    /\ calls = <<>>

\* text.startswith(prefix)
startswith(text, prefix) ==
    Len(text) >= Len(prefix) /\ SubSeq(text, 1, Len(prefix)) = prefix

\* text.split(":")
RECURSIVE split(_)
split(text) ==
    IF \A i \in DOMAIN text : text[i] # ":" THEN <<text>>
    ELSE LET i == CHOOSE k \in DOMAIN text :
                    text[k] = ":" /\ \A j \in 1..(k - 1) : text[j] # ":"
         IN  <<SubSeq(text, 1, i - 1)>> \o split(SubSeq(text, i + 1, Len(text)))

\* int(text) of a text of digits, signs and letters: an optional sign and then
\* digits; ok is FALSE for the ValueError of any other text
RECURSIVE DigitsValue(_)
DigitsValue(digits) ==
    IF digits = <<>> THEN 0
    ELSE 10 * DigitsValue(SubSeq(digits, 1, Len(digits) - 1)) + Digit(digits[Len(digits)])

parse_int(text) ==
    LET t == strip(text)
        signed == t # <<>> /\ Head(t) \in {"-", "+"}
        digits == IF signed THEN Tail(t) ELSE t
    IN  IF digits = <<>> \/ \E i \in DOMAIN digits : Digit(digits[i]) < 0
        THEN [ok |-> FALSE, value |-> 0]
        ELSE [ok |-> TRUE,
              value |-> IF signed /\ Head(t) = "-" THEN 0 - DigitsValue(digits)
                        ELSE DigitsValue(digits)]

\* the admins of src/app/bot.py, from the same ADMIN_TG_IDS as the CRM bot
ADMINS == ADMIN_IDS

Handled(text, store_calls, exc) == [alert |-> text, calls |-> store_calls, raised |-> exc]

\* send_leads and show_leads: count_leads(), then list_leads(limit, offset), whose
\* SELECT fails for a negative LIMIT or OFFSET
send_leads(offset, limit) ==
    IF offset < 0 \/ limit < 0
    THEN Handled(NoAlert, <<"count_leads", "list_leads">>, "DatabaseError")
    ELSE Handled("answered", <<"count_leads", "list_leads">>, NoError)

\* on_callback of src/app/bot.py
app_bot_on_callback(user_id, data) ==
    IF user_id \notin ADMINS THEN Handled("access_denied", <<>>, NoError)
    ELSE IF startswith(data, <<"l", "e", "a", "d", "s", ":">>)
    THEN LET parts == split(data)
         IN  IF Len(parts) # 3 \/ ~parse_int(parts[2]).ok \/ ~parse_int(parts[3]).ok
             THEN Handled("pagination_error", <<>>, NoError)
             ELSE send_leads(parse_int(parts[2]).value, parse_int(parts[3]).value)
    ELSE Handled("answered", <<>>, NoError)

\* on_callback of src/bot.py for data that is no catalog, card or form callback:
\* the leads branch unpacks and converts without a try
bot_on_callback_leads(user_id, data) ==
    IF ~is_admin(user_id) THEN Handled("access_denied", <<>>, NoError)
    ELSE IF startswith(data, <<"l", "e", "a", "d", "s", ":">>)
    THEN LET parts == split(data)
         IN  IF Len(parts) # 3 \/ ~parse_int(parts[2]).ok \/ ~parse_int(parts[3]).ok
             THEN Handled(NoAlert, <<>>, "ValueError")
             ELSE send_leads(parse_int(parts[2]).value, parse_int(parts[3]).value)
    ELSE Handled("answered", <<>>, NoError)

(***************************************************************************)
(* The multi-role shop bot, src/catalog_bot.py: roles, the per-client      *)
(* CLIENT_STATE and the callback handler.  The bot handles one update at a *)
(* time; every store call commits on its own.                              *)
(***************************************************************************)
SUPPLIER_IDS == {2}
ShopUsers == {1, 2, 7}

is_supplier(user_id) == user_id \in SUPPLIER_IDS

is_client(user_id) == ~(is_admin(user_id) \/ is_supplier(user_id))

\* the default entry of CLIENT_STATE
NoClientState == [step |-> "none", cart |-> <<>>, pending_product |-> "", address |-> None]

NoCheckout == [pc |-> "idle", user |-> 0, order_id |-> NoId, todo |-> {}, address |-> None]

InitShopBot ==
    /\ CLIENT_STATE = [u \in ShopUsers |-> NoClientState]
    /\ checkout = NoCheckout
    /\ saving = [r \in Requests |-> IdleSave]

\* data.split(":", 2) of a setstat callback without a third field
NoStatus == "<missing>"

allowed_statuses_any == {"confirmed", "shipped", "received", "paid", "cancelled"}

allowed_statuses == {"confirmed", "shipped", "received"}

\* SELECT ... FROM products WHERE code = %s
get_product_by_code(code) == ProductsOf(products, code)

\* client_select_product: the product must exist; then the client is asked for a quantity
client_select_product(user_id, code) ==
    IF get_product_by_code(code) = {}
    THEN /\ alert' = "product_not_found"
         /\ UNCHANGED CLIENT_STATE
    ELSE /\ alert' = "answered"
         /\ CLIENT_STATE' = [CLIENT_STATE EXCEPT ![user_id].step = "enter_qty",
                                                  ![user_id].pending_product = code]

\* the callbacks every role reaches when no branch of its own has returned
client_callbacks(uid, data) ==
    /\ raised' = NoError
    /\ UNCHANGED orders
    /\ CASE data.cmd = "prod" -> client_select_product(uid, data.arg)
         [] data.cmd = "cart" /\ data.arg = "clear" ->
               /\ CLIENT_STATE' = [CLIENT_STATE EXCEPT ![uid].cart = <<>>]
               /\ alert' = "cart_cleared"
         [] data.cmd = "cart" /\ data.arg = "place" ->
               /\ CLIENT_STATE' = [CLIENT_STATE EXCEPT ![uid].step = "enter_address"]
               /\ alert' = "answered"
         [] data.cmd \in {"shop:more", "noop"} \/ (data.cmd = "cart" /\ data.arg \in {"show", "back"}) ->
               /\ alert' = "answered"
               /\ UNCHANGED CLIENT_STATE
         [] OTHER ->
               /\ alert' = NoAlert
               /\ UNCHANGED CLIENT_STATE

\* on_callback of src/catalog_bot.py: the admin branch, the supplier branch, then
\* the client callbacks
catalog_bot_on_callback(uid, data) ==
    IF is_admin(uid) /\ data.cmd \in {"order", "noop"}
    THEN /\ alert' = "answered"
         /\ raised' = NoError
         /\ UNCHANGED <<orders, CLIENT_STATE>>
    ELSE IF is_admin(uid) /\ data.cmd = "setstat"
    THEN IF data.arg = NoStatus
         THEN /\ raised' = "ValueError"
              /\ alert' = NoAlert
              /\ UNCHANGED <<orders, CLIENT_STATE>>
         ELSE /\ set_order_status(data.lead_id, data.arg)
              /\ alert' = "status_updated"
              /\ raised' = NoError
              /\ UNCHANGED CLIENT_STATE
    ELSE IF is_supplier(uid) /\ data.cmd \in {"order", "noop"}
    THEN /\ alert' = "answered"
         /\ raised' = NoError
         /\ UNCHANGED <<orders, CLIENT_STATE>>
    ELSE IF is_supplier(uid) /\ data.cmd = "setstat"
    THEN IF data.arg = NoStatus
         THEN /\ alert' = "bad_format"
              /\ raised' = NoError
              /\ UNCHANGED <<orders, CLIENT_STATE>>
         ELSE IF data.arg \notin allowed_statuses
         THEN /\ alert' = "bad_status"
              /\ raised' = NoError
              /\ UNCHANGED <<orders, CLIENT_STATE>>
         ELSE /\ set_order_status(data.lead_id, data.arg)
              /\ alert' = "status_updated"
              /\ raised' = NoError
              /\ UNCHANGED CLIENT_STATE
    ELSE client_callbacks(uid, data)

\* text.replace(",", ".")
Dotted(text) == [i \in DOMAIN text |-> IF text[i] = "," THEN "." ELSE text[i]]

\* a fraction of at most two digits, in hundredths
Hundredths(frac) ==
    CASE Len(frac) = 0 -> 0
      [] Len(frac) = 1 -> 10 * Digit(frac[1])
      [] OTHER -> 10 * Digit(frac[1]) + Digit(frac[2])

\* float(text) of a text with at most two decimals: surrounding whitespace is
\* dropped, "nan" is a float, a sign and one decimal point are allowed, anything
\* else raises ValueError; the value is in hundredths
parse_float(text) ==
    LET t == strip(text)
        signed == t # <<>> /\ Head(t) \in {"-", "+"}
        body == IF signed THEN Tail(t) ELSE t
        dots == {i \in DOMAIN body : body[i] = "."}
        dot == IF dots = {} THEN Len(body) + 1 ELSE CHOOSE i \in dots : TRUE
        whole == SubSeq(body, 1, dot - 1)
        frac == SubSeq(body, dot + 1, Len(body))
        magnitude == 100 * DigitsValue(whole) + Hundredths(frac)
    IN  IF body = <<"n", "a", "n">> THEN [ok |-> TRUE, value |-> NaN]
        ELSE IF \/ Cardinality(dots) > 1
                \/ whole \o frac = <<>>
                \/ \E i \in DOMAIN (whole \o frac) : Digit((whole \o frac)[i]) < 0
        THEN [ok |-> FALSE, value |-> 0]
        ELSE [ok |-> TRUE,
              value |-> IF signed /\ Head(t) = "-" THEN 0 - magnitude ELSE magnitude]

\* qty <= 0 of floats: False for nan
NotPositive(qty) == qty # NaN /\ qty <= 0

\* a + b of floats
FloatSum(a, b) == IF a = NaN \/ b = NaN THEN NaN ELSE a + b

\* cart.get(code, 0)
CartGet(cart, code) == IF code \in DOMAIN cart THEN cart[code] ELSE 0

\* cart[code] = qty
CartPut(cart, code, qty) ==
    [c \in DOMAIN cart \cup {code} |-> IF c = code THEN qty ELSE cart[c]]

\* client_receive_quantity: float(text with "," as "."), qty <= 0 refused like
\* a text that is no number; then cart[code] = cart.get(code, 0) + qty
client_receive_quantity(user_id, text) ==
    LET state == CLIENT_STATE[user_id]
        qty == parse_float(Dotted(text))
        code == state.pending_product
    IN  IF ~qty.ok \/ NotPositive(qty.value)
        THEN /\ alert' = "bad_quantity"
             /\ UNCHANGED CLIENT_STATE
        ELSE IF code = ""
        THEN /\ alert' = "error"
             /\ CLIENT_STATE' = [CLIENT_STATE EXCEPT ![user_id].step = "none"]
        ELSE /\ alert' = "added"
             /\ CLIENT_STATE' = [CLIENT_STATE EXCEPT
                    ![user_id].cart = CartPut(@, code, FloatSum(CartGet(@, code), qty.value)),
                    ![user_id].step = "none",
                    ![user_id].pending_product = ""]

\* SELECT * FROM clients WHERE tg_id = %s
get_client_by_tg_id(tg_id) == ClientsOf(tg_id)

\* client_receive_address up to create_order: an empty address is asked for
\* again, without a client row or with an empty cart the step is dropped
client_receive_address(user_id, text) ==
    LET state == CLIENT_STATE[user_id]
        address == strip(text)
        client == get_client_by_tg_id(user_id)
    IN  IF address = <<>>
        THEN /\ alert' = "bad_address"
             /\ raised' = NoError
             /\ UNCHANGED <<CLIENT_STATE, checkout, orders, ret>>
        ELSE IF client = {}
        THEN /\ alert' = "client_not_found"
             /\ raised' = NoError
             /\ CLIENT_STATE' = [CLIENT_STATE EXCEPT ![user_id].step = "none"]
             /\ UNCHANGED <<checkout, orders, ret>>
        ELSE IF DOMAIN state.cart = {}
        THEN /\ alert' = "cart_empty"
             /\ raised' = NoError
             /\ CLIENT_STATE' = [CLIENT_STATE EXCEPT ![user_id].step = "none"]
             /\ UNCHANGED <<checkout, orders, ret>>
        ELSE /\ create_order(CHOOSE c \in client : TRUE)
             /\ checkout' = [pc |-> "items", user |-> user_id, order_id |-> FreshId(orders),
                             todo |-> DOMAIN state.cart, address |-> address]
             /\ alert' = NoAlert
             /\ UNCHANGED CLIENT_STATE

\* for code, qty in cart.items(): a product that no longer exists is skipped,
\* the others become items at the product's price
checkout_item(code) ==
    /\ checkout.pc = "items"
    /\ code \in checkout.todo
    /\ checkout' = [checkout EXCEPT !.todo = @ \ {code}]
    /\ IF get_product_by_code(code) = {}
       THEN /\ raised' = NoError
            /\ UNCHANGED order_items
       ELSE LET prod == CHOOSE i \in get_product_by_code(code) : TRUE
            IN  add_order_item(checkout.order_id, prod,
                               CLIENT_STATE[checkout.user].cart[code], products[prod].price)

\* update_order_total(order_id) after the loop
checkout_total ==
    /\ checkout.pc = "items"
    /\ checkout.todo = {}
    /\ update_order_total(checkout.order_id)
    /\ checkout' = [checkout EXCEPT !.pc = "status"]

\* set_order_status(order_id, "submitted"), then the cart and the step are
\* cleared and the address is kept
checkout_submit ==
    /\ checkout.pc = "status"
    /\ set_order_status(checkout.order_id, "submitted")
    /\ CLIENT_STATE' = [CLIENT_STATE EXCEPT ![checkout.user].cart = <<>>,
                                             ![checkout.user].step = "none",
                                             ![checkout.user].address = checkout.address]
    /\ alert' = "order_created"
    /\ checkout' = NoCheckout

\* on_text of src/catalog_bot.py for the menu texts and the client's steps
catalog_bot_on_text(uid, text) ==
    IF is_admin(uid) \/ is_supplier(uid)
    THEN /\ alert' = "menu"
         /\ raised' = NoError
         /\ UNCHANGED <<CLIENT_STATE, checkout, orders, ret>>
    ELSE IF CLIENT_STATE[uid].step = "enter_qty"
    THEN /\ client_receive_quantity(uid, text)
         /\ raised' = NoError
         /\ UNCHANGED <<checkout, orders, ret>>
    ELSE IF CLIENT_STATE[uid].step = "enter_address"
    THEN client_receive_address(uid, text)
    ELSE /\ alert' = "menu"
         /\ raised' = NoError
         /\ UNCHANGED <<CLIENT_STATE, checkout, orders, ret>>

(***************************************************************************)
(* Steps                                                                   *)
(***************************************************************************)
InitOther ==
    /\ raised = NoError
    /\ catalog_models = <<>>
    /\ catalog_kits = EmptyBag
    /\ catalog_images = EmptyBag
    /\ fetched = NoModel
    /\ txn = [p \in Procs |-> IdleTxn]
    /\ rowlock = [l \in LeadIds |-> NoProc]
    /\ committed = <<>>
    /\ FORM_STATE = [u \in Users |-> NoForm]
    /\ INTEREST_TMP = <<>>
    /\ clients = <<>>
    /\ ctxn = [p \in Callers |-> IdleCall]
    /\ products = <<>>
    /\ orders = <<>>
    /\ order_items = <<>>
    /\ payments = <<>>
    /\ ret = 0
    /\ InitWeb
    /\ InitTg
    /\ InitShopBot

leadVars == <<raw, result, leads, now, resp, appended, due>>

UpsertModel(code, name, drawings_url) ==
    /\ upsert_model(code, name, "", 0, drawings_url)
    /\ last' = Op("upsert_model", 0, <<name, drawings_url>>, code, 0)
    /\ raised' = NoError
    /\ fetched' = NoModel
    /\ UNCHANGED <<catalog_kits, catalog_images>>
    /\ UNCHANGED <<leadVars, raceVars, botVars, restVars>>

ReplaceKits(code, kits) ==
    /\ replace_kits(code, kits)
    /\ last' = Op("replace_kits", 0, kits, code, 0)
    /\ fetched' = NoModel
    /\ UNCHANGED <<catalog_models, catalog_images>>
    /\ UNCHANGED <<leadVars, raceVars, botVars, restVars>>

ReplaceImages(code, urls) ==
    /\ replace_images(code, urls)
    /\ last' = Op("replace_images", 0, urls, code, 0)
    /\ fetched' = NoModel
    /\ UNCHANGED <<catalog_models, catalog_kits>>
    /\ UNCHANGED <<leadVars, raceVars, botVars, restVars>>

DeleteModel(code) ==
    /\ delete_model(code)
    /\ last' = Op("delete_model", 0, <<>>, code,
                   BagCardinality(RowsOf(catalog_kits, code))
                       + BagCardinality(RowsOf(catalog_images, code)))
    /\ raised' = NoError
    /\ fetched' = NoModel
    /\ UNCHANGED <<leadVars, raceVars, botVars, restVars>>

Connect(p, lead_id, status) ==
    /\ connect(p, lead_id, status)
    /\ last' = Op("connect", lead_id, <<>>, status, 0)
    /\ raised' = NoError
    /\ UNCHANGED <<raw, result, now, resp, appended, due, catalogVars, botVars, restVars>>

ExecuteUpdate(p) ==
    /\ execute_update(p)
    /\ last' = Op("execute", txn[p].lead, <<>>, txn[p].status, 0)
    /\ raised' = NoError
    /\ UNCHANGED <<raw, result, now, resp, appended, due, catalogVars, botVars, restVars>>

Commit(p) ==
    /\ commit(p)
    /\ last' = Op("commit", txn[p].lead, <<>>, txn[p].status, 0)
    /\ UNCHANGED <<raw, result, now, resp, appended, due, catalogVars, botVars, restVars>>

NoteConnect(p, lead_id, note_text) ==
    /\ txn["web"].writes + txn["bot"].writes <= MaxNotes
    /\ note_connect(p, lead_id, note_text)
    /\ last' = Op("note_connect", lead_id, note_text, p, 0)
    /\ raised' = NoError
    /\ UNCHANGED <<raw, result, now, resp, appended, due, catalogVars, botVars, restVars>>

NoteExecute(p) ==
    /\ note_execute(p)
    /\ last' = Op("note_execute", txn[p].lead, txn[p].text, p, 0)
    /\ raised' = NoError
    /\ UNCHANGED <<raw, result, now, resp, appended, due, catalogVars, botVars, restVars>>

NoteCommit(p) ==
    /\ note_commit(p)
    /\ last' = Op("note_commit", txn[p].lead, txn[p].text, p, 0)
    /\ raised' = NoError
    /\ UNCHANGED <<raw, result, now, resp, appended, due, catalogVars, botVars, restVars>>

OnText(user_id, text) ==
    /\ form_get(user_id).step = "note" /\ form_get(user_id).lead_id \in DOMAIN leads
            => Len(appended[form_get(user_id).lead_id]) < MaxNotes
    /\ on_text(user_id, text)
    /\ last' = Op("on_text", form_get(user_id).lead_id, text, form_get(user_id).step, user_id)
    /\ due' = <<>>
    /\ UNCHANGED <<raw, result, now, resp, catalogVars, raceVars, restVars>>

CmdStart(user_id) ==
    /\ cmd_start(user_id)
    /\ last' = Op("cmd_start", 0, <<>>, "", user_id)
    /\ due' = <<>>
    /\ UNCHANGED <<raw, result, now, resp, catalogVars, raceVars, restVars>>

OnCallback(user_id, data) ==
    /\ on_callback(user_id, data)
    /\ last' = Op("on_callback", data.lead_id, <<>>, data.cmd, user_id)
    /\ due' = <<>>
    /\ UNCHANGED <<raw, result, now, resp, catalogVars, raceVars, restVars>>

\* what a step of the shop store leaves alone besides the shop tables
shopFrame == <<leadVars, catalogVars, raceVars, botVars, webVars, tgVars, cbVars>>

IcSelect(p, tg_id, phone) ==
    /\ ic_select(p, tg_id, phone, "", "")
    /\ last' = Op("insert_client", p, <<>>, phone, tg_id)
    /\ UNCHANGED <<products, orders, order_items, payments>>
    /\ UNCHANGED shopFrame

IcInsert(p) ==
    /\ ic_insert(p)
    /\ last' = Op("insert_client_insert", p, <<>>, ctxn[p].phone, ctxn[p].tg_id)
    /\ UNCHANGED <<products, orders, order_items, payments>>
    /\ UNCHANGED shopFrame

IcCommit(p) ==
    /\ ic_commit(p)
    /\ last' = Op("insert_client_commit", p, <<>>, ctxn[p].phone, ctxn[p].tg_id)
    /\ UNCHANGED <<products, orders, order_items, payments>>
    /\ UNCHANGED shopFrame

UpsertProduct(code, name, price) ==
    /\ upsert_product(code, name, "", "", price)
    /\ last' = Op("upsert_product", 0, <<>>, code, price)
    /\ raised' = NoError
    /\ UNCHANGED <<clients, ctxn, orders, order_items, payments, ret>>
    /\ UNCHANGED shopFrame

ReplaceProducts(items) ==
    /\ replace_products(items)
    /\ last' = Op("replace_products", 0, items, "", 0)
    /\ raised' = NoError
    /\ UNCHANGED <<clients, ctxn, orders, order_items, payments, ret>>
    /\ UNCHANGED shopFrame

CreateOrder(client_id) ==
    /\ Cardinality(DOMAIN orders) < MaxOrders
    /\ create_order(client_id)
    /\ last' = Op("create_order", 0, <<>>, "", client_id)
    /\ UNCHANGED <<clients, ctxn, products, order_items, payments>>
    /\ UNCHANGED shopFrame

AddOrderItem(order_id, product_id, quantity, price) ==
    /\ Cardinality(DOMAIN order_items) < MaxItems
    /\ add_order_item(order_id, product_id, quantity, price)
    /\ last' = Op("add_order_item", order_id, <<quantity, price>>, "", product_id)
    /\ UNCHANGED <<clients, ctxn, products, orders, payments, ret>>
    /\ UNCHANGED shopFrame

UpdateOrderTotal(order_id) ==
    /\ update_order_total(order_id)
    /\ last' = Op("update_order_total", order_id, <<>>, "", 0)
    /\ raised' = NoError
    /\ UNCHANGED <<clients, ctxn, products, order_items, payments, ret>>
    /\ UNCHANGED shopFrame

SetOrderStatus(order_id, status) ==
    /\ set_order_status(order_id, status)
    /\ last' = Op("set_order_status", order_id, <<>>, status, 0)
    /\ raised' = NoError
    /\ UNCHANGED <<clients, ctxn, products, order_items, payments, ret>>
    /\ UNCHANGED shopFrame

RecordPayment(order_id, amount) ==
    /\ Cardinality(DOMAIN payments) < MaxPayments
    /\ record_payment(order_id, amount, "post")
    /\ last' = Op("record_payment", order_id, <<>>, "post", amount)
    /\ UNCHANGED <<clients, ctxn, products, order_items, ret>>
    /\ UNCHANGED shopFrame

\* what a step of the web application leaves alone besides its own variables
webFrame == <<leadVars, catalogVars, raceVars, botVars, shopVars, tgVars, cbVars>>

VerifyStep ==
    /\ verified = "unset"
    /\ verified' = IF telegram_check_auth(query, TELEGRAM_BOT_TOKEN) THEN "pass" ELSE "fail"
    /\ raised' = NoError
    /\ UNCHANGED <<query, session, page, last>>
    /\ UNCHANGED webFrame

AdminAuthTelegram(data) ==
    LET r == admin_auth_telegram(session, data)
    IN  /\ query' = data
        /\ verified' = IF telegram_check_auth(data, TELEGRAM_BOT_TOKEN) THEN "pass" ELSE "fail"
        /\ session' = r.session
        /\ page' = r.page
        /\ raised' = r.raised
        /\ last' = Op("admin_auth_telegram", 0, <<>>, "", user_id_of(data))
        /\ UNCHANGED webFrame

AdminLogout ==
    LET r == admin_logout(session)
    IN  /\ session' = r.session
        /\ page' = r.page
        /\ raised' = r.raised
        /\ last' = Op("admin_logout", 0, <<>>, "", 0)
        /\ UNCHANGED <<query, verified>>
        /\ UNCHANGED webFrame

\* what a route of the admin catalog leaves alone
adminFrame == <<leadVars, raceVars, botVars, shopVars, query, verified, session, alert,
                CLIENT_STATE, checkout, fetched>>

AdminModels ==
    LET r == admin_models(session)
    IN  /\ page' = r.page /\ calls' = r.calls /\ raised' = r.raised
        /\ last' = Op("admin_models", 0, <<>>, "", 0)
        /\ UNCHANGED <<catalog_models, catalog_kits, catalog_images, saving>>
        /\ UNCHANGED adminFrame

AdminModelNew ==
    LET r == admin_model_new(session)
    IN  /\ page' = r.page /\ calls' = r.calls /\ raised' = r.raised
        /\ last' = Op("admin_model_new", 0, <<>>, "", 0)
        /\ UNCHANGED <<catalog_models, catalog_kits, catalog_images, saving>>
        /\ UNCHANGED adminFrame

AdminModelEdit(code) ==
    /\ \E r \in admin_model_edit(session, code) :
           page' = r.page /\ calls' = r.calls /\ raised' = r.raised
    /\ last' = Op("admin_model_edit", 0, <<>>, code, 0)
    /\ UNCHANGED <<catalog_models, catalog_kits, catalog_images, saving>>
    /\ UNCHANGED adminFrame

AdminModelSave(r, code, name, drawings_url, kits, urls) ==
    /\ admin_model_save(r, code, name, drawings_url, kits, urls)
    /\ last' = Op("admin_model_save", r, <<kits, urls>>, code, 0)
    /\ UNCHANGED <<catalog_kits, catalog_images>>
    /\ UNCHANGED adminFrame

SaveKits(r) ==
    /\ save_kits(r)
    /\ last' = Op("save_kits", r, <<>>, saving[r].code, 0)
    /\ UNCHANGED <<catalog_models, catalog_images>>
    /\ UNCHANGED adminFrame

SaveImages(r) ==
    /\ save_images(r)
    /\ last' = Op("save_images", r, <<>>, saving[r].code, 0)
    /\ UNCHANGED <<catalog_models, catalog_kits>>
    /\ UNCHANGED adminFrame

AdminModelDelete(code) ==
    /\ admin_model_delete(code)
    /\ last' = Op("admin_model_delete", 0, <<>>, code, 0)
    /\ UNCHANGED saving
    /\ UNCHANGED adminFrame

DrawingsPage(lead_id, model_code) ==
    /\ page' \in drawings_page(lead_id, model_code)
    /\ raised' = NoError
    /\ last' = Op("drawings_page", lead_id, <<>>, model_code, 0)
    /\ UNCHANGED <<query, verified, session>>
    /\ UNCHANGED webFrame

\* what a callback without store writes leaves alone
tgFrame == <<leadVars, catalogVars, raceVars, botVars, shopVars, webVars, cbVars>>

AppBotOnCallback(user_id, data) ==
    LET r == app_bot_on_callback(user_id, data)
    IN  /\ alert' = r.alert
        /\ calls' = r.calls
        /\ raised' = r.raised
        /\ last' = Op("app_bot_on_callback", user_id, data, "", 0)
        /\ UNCHANGED tgFrame

BotOnCallbackLeads(user_id, data) ==
    LET r == bot_on_callback_leads(user_id, data)
    IN  /\ alert' = r.alert
        /\ calls' = r.calls
        /\ raised' = r.raised
        /\ last' = Op("bot_on_callback", user_id, data, "", 0)
        /\ UNCHANGED tgFrame

\* what a handler of the shop bot leaves alone besides the shop tables and its state
shopBotFrame == <<leadVars, catalogVars, raceVars, botVars, webVars, calls, saving>>

CatalogBotOnCallback(uid, data) ==
    /\ checkout.pc = "idle"
    /\ catalog_bot_on_callback(uid, data)
    /\ last' = Op("catalog_bot_on_callback", data.lead_id, <<data.arg>>, data.cmd, uid)
    /\ UNCHANGED <<clients, ctxn, products, order_items, payments, ret, checkout>>
    /\ UNCHANGED shopBotFrame

CatalogBotOnText(uid, text) ==
    /\ checkout.pc = "idle"
    /\ CLIENT_STATE[uid].step = "enter_qty" =>
           \A c \in DOMAIN CLIENT_STATE[uid].cart : CLIENT_STATE[uid].cart[c] <= MaxQty
    /\ CLIENT_STATE[uid].step = "enter_address" => Cardinality(DOMAIN orders) < MaxOrders
    /\ catalog_bot_on_text(uid, text)
    /\ last' = Op("catalog_bot_on_text", 0, text, CLIENT_STATE[uid].step, uid)
    /\ UNCHANGED <<clients, ctxn, products, order_items, payments>>
    /\ UNCHANGED shopBotFrame

CheckoutItem(code) ==
    /\ Cardinality(DOMAIN order_items) < MaxItems
    /\ checkout_item(code)
    /\ last' = Op("checkout_item", checkout.order_id, <<>>, code, checkout.user)
    /\ UNCHANGED <<clients, ctxn, products, orders, payments, ret, CLIENT_STATE, alert>>
    /\ UNCHANGED shopBotFrame

CheckoutTotal ==
    /\ checkout_total
    /\ last' = Op("checkout_total", checkout.order_id, <<>>, "", checkout.user)
    /\ raised' = NoError
    /\ UNCHANGED <<clients, ctxn, products, order_items, payments, ret, CLIENT_STATE, alert>>
    /\ UNCHANGED shopBotFrame

CheckoutSubmit ==
    /\ checkout_submit
    /\ last' = Op("checkout_submit", checkout.order_id, <<>>, "", checkout.user)
    /\ raised' = NoError
    /\ UNCHANGED <<clients, ctxn, products, order_items, payments, ret>>
    /\ UNCHANGED shopBotFrame

GetModel(code) ==
    /\ fetched' \in get_model(code)
    /\ last' = Op("get_model", 0, <<>>, code, 0)
    /\ raised' = NoError
    /\ UNCHANGED <<catalog_models, catalog_kits, catalog_images>>
    /\ UNCHANGED <<leadVars, raceVars, botVars, restVars>>

NormalizeStep ==
    /\ result = Unset
    /\ result' = normalize_phone(raw)
    /\ raised' = NoError
    /\ UNCHANGED otherVars
    /\ UNCHANGED <<raw, leads, now, resp, appended, due, last>>

Tick ==
    /\ now < MaxTime
    /\ now' = now + 1
    /\ last' = Op("tick", 0, <<>>, "", 0)
    /\ due' = <<>>
    /\ raised' = NoError
    /\ UNCHANGED otherVars
    /\ UNCHANGED <<raw, result, leads, resp, appended>>

SubmitPhone(phone, agree, model_code, src) ==
    /\ submit_phone(phone, agree, model_code, src)
    /\ last' = Op("submit_phone", 0, phone, <<agree, model_code, src>>, 0)
    /\ due' = <<>>
    /\ raised' = NoError
    /\ UNCHANGED otherVars
    /\ UNCHANGED <<raw, result, now>>

SetLeadStatus(lead_id, status) ==
    /\ set_lead_status(lead_id, status)
    /\ last' = Op("set_lead_status", lead_id, <<>>, status, 0)
    /\ raised' = NoError
    /\ UNCHANGED otherVars
    /\ UNCHANGED <<raw, result, now, resp, appended, due>>

SetLeadSegment(lead_id, segment) ==
    /\ set_lead_segment(lead_id, segment)
    /\ last' = Op("set_lead_segment", lead_id, <<>>, segment, 0)
    /\ raised' = NoError
    /\ UNCHANGED otherVars
    /\ UNCHANGED <<raw, result, now, resp, appended, due>>

AppendLeadNote(lead_id, note_text) ==
    /\ lead_id \in DOMAIN leads => Len(appended[lead_id]) < MaxNotes
    /\ append_lead_note(lead_id, note_text)
    /\ last' = Op("append_lead_note", lead_id, note_text, "", 0)
    /\ raised' = NoError
    /\ UNCHANGED otherVars
    /\ UNCHANGED <<raw, result, now, resp, due>>

SetLeadRemindAt(lead_id, remind_at) ==
    /\ set_lead_remind_at(lead_id, remind_at)
    /\ last' = Op("set_lead_remind_at", lead_id, <<>>, "", remind_at)
    /\ due' = <<>>
    /\ raised' = NoError
    /\ UNCHANGED otherVars
    /\ UNCHANGED <<raw, result, now, resp, appended>>

DueReminders(limit) ==
    /\ due' \in due_reminders(limit)
    /\ last' = Op("due_reminders", 0, <<>>, "", limit)
    /\ raised' = NoError
    /\ UNCHANGED otherVars
    /\ UNCHANGED <<raw, result, leads, now, resp, appended>>

(***************************************************************************)
(* Specifications                                                          *)
(***************************************************************************)
InitStore ==
    /\ result = Unset
    /\ leads = <<>>
    /\ now = 0
    /\ resp = NoResponse
    /\ appended = <<>>
    /\ due = <<>>
    /\ last = Op("init", 0, <<>>, "", 0)
    /\ InitOther

Init == raw = None /\ InitStore

\* the store is created at any time of the clock
InitAnyTime ==
    /\ raw = None
    /\ result = Unset
    /\ leads = <<>>
    /\ now \in 0..MaxTime
    /\ resp = NoResponse
    /\ appended = <<>>
    /\ due = <<>>
    /\ last = Op("init", 0, <<>>, "", 0)
    /\ InitOther

\* normalize_phone applied to one input
InitPhone == raw \in PhoneInputs /\ InitStore
NextPhone == NormalizeStep
SpecPhone == InitPhone /\ [][NextPhone]_vars

\* the public funnel
Submit == \E phone \in SubmittedPhones, agree \in AgreeValues, model_code \in ModelCodes, src \in Sources :
              SubmitPhone(phone, agree, model_code, src)
NextFunnel == Submit
SpecFunnel == InitAnyTime /\ [][NextFunnel]_vars

\* the lead store, its rows created by the funnel
RegisteredPhone == <<"8", "9", "9", "9", "1", "2", "3", "4", "5", "6", "7">>
Register == SubmitPhone(RegisteredPhone, "on", "polar-6", "qr")
Status == \E l \in LeadArgs, s \in StatusValues : SetLeadStatus(l, s)
Segment == \E l \in LeadArgs, s \in SegmentValues : SetLeadSegment(l, s)
Note == \E l \in LeadArgs, t \in NoteTexts : AppendLeadNote(l, t)
Remind == \E l \in LeadArgs, t \in RemindTimes : SetLeadRemindAt(l, t)
Due == \E n \in Limits : DueReminders(n)

\* notes
NextNotes == Register \/ Note
SpecNotes == InitAnyTime /\ [][NextNotes]_vars

\* status and segment; the first lead is given a note and a reminder
NoteOne == 1 \in DOMAIN leads /\ leads[1].note = <<>> /\ AppendLeadNote(1, <<"a">>)
RemindOne == 1 \in DOMAIN leads /\ SetLeadRemindAt(1, MaxTime + 1)
NextFields == Register \/ Status \/ Segment \/ NoteOne \/ RemindOne
SpecFields == InitAnyTime /\ [][NextFields]_vars

\* the catalog: models and their images, models and their kits
Upsert == \E c \in CatalogCodes, n \in ModelNames : UpsertModel(c, n, "https://cdn/drawings")
Delete == \E c \in CatalogCodes : DeleteModel(c)
Get == \E c \in CatalogCodes : GetModel(c)
Images == \E c \in CatalogCodes, urls \in ImageLists : ReplaceImages(c, urls)
Kits == \E c \in CatalogCodes, kits \in KitLists : ReplaceKits(c, kits)
NextImages == Upsert \/ Delete \/ Get \/ Images
SpecImages == Init /\ [][NextImages]_vars
NextKits == Upsert \/ Delete \/ Get \/ Kits
SpecKits == Init /\ [][NextKits]_vars

\* models with their kits and images together
OneKit == {k \in KitLists : Len(k) <= 1}
OneImage == {u \in ImageLists : Len(u) <= 1}
FewKits == \E c \in CatalogCodes, kits \in OneKit : ReplaceKits(c, kits)
FewImages == \E c \in CatalogCodes, urls \in OneImage : ReplaceImages(c, urls)
NextCatalog == Upsert \/ Delete \/ FewKits \/ FewImages
SpecCatalog == Init /\ [][NextCatalog]_vars

\* registrations of clients from two callers
TgIds == {NoTg, 0, 7, 8}
ClientPhones == {"+70000000001", "+70000000002"}
Selecting == \E p \in Callers, tg \in TgIds, ph \in ClientPhones : IcSelect(p, tg, ph)
Inserting == \E p \in Callers : IcInsert(p)
ClientCommitting == \E p \in Callers : IcCommit(p)
NextClients == Selecting \/ Inserting \/ ClientCommitting
SpecClients == Init /\ [][NextClients]_vars

\* orders, their items and the products they refer to
OrderArgs == {1, 2}
ProductArgs == {NoId, 1}
QuantityPrice == {<<200, 1000>>, <<100, 500>>, <<250, 1001>>}
ProductCodes == {"board", "nail"}
ProductPrices == {500, 1001}
Creating == \E c \in {NoId, 1} : CreateOrder(c)
AddingItem ==
    \E o \in OrderArgs, pr \in ProductArgs, qp \in QuantityPrice :
        AddOrderItem(o, pr, qp[1], qp[2])
Totalling == \E o \in OrderArgs : UpdateOrderTotal(o)
Pricing == \E pr \in ProductPrices : UpsertProduct("board", "Board", pr)
Importing ==
    \E pr \in ProductPrices :
        ReplaceProducts(<<[code |-> "board", name |-> "Board", price |-> pr, unit |-> "pc",
                           description |-> ""]>>)
NextOrders == Creating \/ AddingItem \/ Totalling \/ Pricing \/ Importing
SpecOrders == Init /\ [][NextOrders]_vars

\* the status, the timestamps and the payments of an order
ShopStatuses == {"submitted", "shipped", "delivered", "paid", "NOW()"}
PaymentAmounts == {100, 5000}
CreatingOne == CreateOrder(NoId)
Staging == \E s \in ShopStatuses : SetOrderStatus(1, s)
Paying == \E a \in PaymentAmounts : RecordPayment(1, a)
AddingOne == ItemsOf(1) = {} /\ AddOrderItem(1, NoId, 200, 1000)
TotallingOne == UpdateOrderTotal(1)
NextStatus == CreatingOne \/ Staging \/ Paying \/ AddingOne \/ TotallingOne \/ Tick
SpecStatus == Init /\ [][NextStatus]_vars

\* price imports
Item(code, name, price, unit, description) ==
    [code |-> code, name |-> name, price |-> price, unit |-> unit, description |-> description]
ImportItems ==
    {Item("board", "Board", 500, "pc", ""), Item("board", "Plank", 1001, "m", "long"),
     Item("nail", "Nail", 500, "kg", ""), Item("", "No code", 500, "pc", ""),
     Item("screw", "", 500, "pc", "")}
ImportLists == SeqsUpTo(ImportItems, MaxImport)
ImportingList == \E items \in ImportLists : ReplaceProducts(items)
PricingAny ==
    \E c \in ProductCodes, pr \in ProductPrices : UpsertProduct(c, "Manual", pr)
NextProducts == ImportingList \/ PricingAny
SpecProducts == Init /\ [][NextProducts]_vars

\* telegram_check_auth applied to one payload
AuthKeys == {<<"i", "d">>, <<"a">>}
AuthValues == {<<"5">>, <<"7">>, <<"5", "\n", "i", "d", "=", "7">>}
Tokens == {TELEGRAM_BOT_TOKEN, "T2"}
FieldMaps == UNION {[K -> AuthValues] : K \in SUBSET AuthKeys}
WithHash(fields, h) ==
    [k \in DOMAIN fields \cup {HashKey} |-> IF k = HashKey THEN h ELSE fields[k]]
AuthPayloads ==
    FieldMaps \cup
    {WithHash(f, hmac_hexdigest(sha256(t), data_check_string(g))) :
        f \in FieldMaps, g \in FieldMaps, t \in Tokens}
InitAuth ==
    /\ raw = None
    /\ result = Unset
    /\ leads = <<>>
    /\ now = 0
    /\ resp = NoResponse
    /\ appended = <<>>
    /\ due = <<>>
    /\ last = Op("init", 0, <<>>, "", 0)
    /\ raised = NoError
    /\ catalog_models = <<>>
    /\ catalog_kits = EmptyBag
    /\ catalog_images = EmptyBag
    /\ fetched = NoModel
    /\ txn = [p \in Procs |-> IdleTxn]
    /\ rowlock = [l \in LeadIds |-> NoProc]
    /\ committed = <<>>
    /\ FORM_STATE = [u \in Users |-> NoForm]
    /\ INTEREST_TMP = <<>>
    /\ clients = <<>>
    /\ ctxn = [p \in Callers |-> IdleCall]
    /\ products = <<>>
    /\ orders = <<>>
    /\ order_items = <<>>
    /\ payments = <<>>
    /\ ret = 0
    /\ query \in AuthPayloads
    /\ verified = "unset"
    /\ session = NoSession
    /\ page = NoPage
    /\ InitTg
    /\ InitShopBot
NextAuth == VerifyStep
SpecAuth == InitAuth /\ [][NextAuth]_vars

\* browsers calling the Telegram login callback and logging out
Authenticating == \E d \in AuthPayloads : AdminAuthTelegram(d)
LoggingOut == AdminLogout
NextAdmin == Authenticating \/ LoggingOut
SpecAdmin == Init /\ [][NextAdmin]_vars

\* browsers with and without the lead_id cookie asking for drawings while the
\* catalog is edited
Cookies == {NoCookie, EmptyCookie, 1}
DrawingUrls == {"", "https://cdn/drawings"}
Publishing == \E c \in CatalogCodes, u \in DrawingUrls : UpsertModel(c, "Polar 6", u)
Withdrawing == \E c \in CatalogCodes : DeleteModel(c)
Viewing == \E k \in Cookies, c \in CatalogCodes : DrawingsPage(k, c)
NextDrawings == Publishing \/ Withdrawing \/ Viewing
SpecDrawings == Init /\ [][NextDrawings]_vars

\* admins and strangers pressing well-formed and malformed paging buttons
PagingTokens == {<<>>, <<"0">>, <<"2", "0">>, <<"x">>, <<"-", "2">>}
RECURSIVE JoinColon(_)
JoinColon(tokens) ==
    IF tokens = <<>> THEN <<>> ELSE <<":">> \o Head(tokens) \o JoinColon(Tail(tokens))
PagingData ==
    {<<"l", "e", "a", "d", "s">> \o JoinColon(ts) : ts \in SeqsUpTo(PagingTokens, MaxTokens)}
        \cup {<<"n", "o", "o", "p">>}
PagingApp == \E u \in Users, d \in PagingData : AppBotOnCallback(u, d)
PagingCrm == \E u \in Users, d \in PagingData : BotOnCallbackLeads(u, d)
NextPaging == PagingApp \/ PagingCrm
SpecPaging == Init /\ [][NextPaging]_vars

\* two processes setting the status of leads
RaceLeads == {1, 2}
Connecting == \E p \in Procs, l \in RaceLeads, st \in StatusValues : Connect(p, l, st)
Executing == \E p \in Procs : ExecuteUpdate(p)
Committing == \E p \in Procs : Commit(p)
NextRace == Register \/ Connecting \/ Executing \/ Committing
SpecRace ==
    /\ Init
    /\ [][NextRace]_vars
    /\ \A p \in Procs : WF_vars(ExecuteUpdate(p)) /\ WF_vars(Commit(p))

FormLeads == {1}

\* two processes appending notes to the same lead
RaceNotes == {<<" ", "\n">>, <<"a">>, <<" ", "b", " ", "c", "\n">>}
NoteConnecting == \E p \in Procs, l \in FormLeads, t \in RaceNotes : NoteConnect(p, l, t)
NoteExecuting == \E p \in Procs : NoteExecute(p)
NoteCommitting == \E p \in Procs : NoteCommit(p)
NextNoteRace == Register \/ NoteConnecting \/ NoteExecuting \/ NoteCommitting
SpecNoteRace ==
    /\ Init
    /\ [][NextNoteRace]_vars
    /\ \A p \in Procs : WF_vars(NoteExecute(p)) /\ WF_vars(NoteCommit(p))

\* the bot's lead form
FormTexts == {<<>>, <<" ", "b", " ">>}
InterestCodes == {"drawings"}
Data(cmd, lead_id, arg) == [cmd |-> cmd, lead_id |-> lead_id, arg |-> arg]
CallbackData ==
    {Data(cmd, l, "") : cmd \in {"lead", "lead_form", "form_skip", "form_interest_clear",
                                  "form_interest_done", "lead_note"}, l \in FormLeads}
    \cup {Data("form_back", l, b) : l \in FormLeads, b \in {"full_name", "status"}}
    \cup {Data("form_set_segment", l, "private") : l \in FormLeads}
    \cup {Data("form_interest_toggle", l, c) : l \in FormLeads, c \in InterestCodes}
    \cup {Data("form_set_status", l, "waiting") : l \in FormLeads}
Text == \E u \in Users, t \in FormTexts : OnText(u, t)
Callback == \E u \in Users, d \in CallbackData : OnCallback(u, d)
NextForm == Register \/ Text \/ Callback
SpecForm == Init /\ [][NextForm]_vars

\* a client filling a cart and placing orders
QtyTexts == {<<"2", ".", "5">>, <<" ", "1", ",", "2", "5">>, <<"0">>, <<"-", "1">>, <<"x">>,
             <<"n", "a", "n">>}
AddressTexts == {<<" ">>, <<"x">>}
ShopTexts == QtyTexts \cup AddressTexts
ShopCallbacks ==
    {Data("prod", 0, c) : c \in ProductCodes}
        \cup {Data("cart", 0, a) : a \in {"place", "clear"}}
Signing == IcSelect(1, 7, "+70000000001") \/ IcInsert(1) \/ IcCommit(1)
Stocking == UpsertProduct("board", "Board", 1001)
Tapping == \E d \in ShopCallbacks : CatalogBotOnCallback(7, d)
Typing == \E u \in {2, 7}, t \in ShopTexts : CatalogBotOnText(u, t)
Placing == (\E c \in ProductCodes : CheckoutItem(c)) \/ CheckoutTotal \/ CheckoutSubmit
NextCheckout == Signing \/ Stocking \/ Tapping \/ Typing \/ Placing
SpecCheckout == Init /\ [][NextCheckout]_vars

\* browsers logging in and out and using the admin catalog, two saves at a time
IdOnly(v) == [k \in {IdKey} |-> v]
SignedPayload(f) ==
    WithHash(f, hmac_hexdigest(sha256(TELEGRAM_BOT_TOKEN), data_check_string(f)))
LoginPayloads == {SignedPayload(IdOnly(<<"5">>)), SignedPayload(IdOnly(<<"7">>)), IdOnly(<<"5">>)}
SaveForm(kits, urls) == [kits |-> kits, urls |-> urls]
FormA == SaveForm(<<[material |-> "birch", price |-> 10]>>, <<"https://cdn/1.jpg">>)
FormB == SaveForm(<<[material |-> "steel", price |-> 20]>>, <<"https://cdn/2.jpg">>)
FormEmpty == SaveForm(<<>>, <<>>)
SaveForms == {FormA, FormB, FormEmpty}
SaveCode == "polar-6"
LoggingIn == \E d \in LoginPayloads : AdminAuthTelegram(d)
Listing == AdminModels \/ AdminModelNew \/ AdminModelEdit(SaveCode)
SavingModel ==
    \E r \in Requests, c \in {SaveCode, ""}, f \in SaveForms :
        AdminModelSave(r, c, "Polar 6", "", f.kits, f.urls)
SavingKits == \E r \in Requests : SaveKits(r)
SavingImages == \E r \in Requests : SaveImages(r)
DeletingModel == AdminModelDelete(SaveCode)
NextAdminCatalog ==
    LoggingIn \/ LoggingOut \/ Listing \/ SavingModel \/ SavingKits \/ SavingImages
        \/ DeletingModel
SpecAdminCatalog == Init /\ [][NextAdminCatalog]_vars

\* admins and other users sending texts and pressing every kind of button
GuardData ==
    {Data(cmd, l, "") : cmd \in {"lead_form", "lead_note"}, l \in FormLeads}
        \cup {Data("form_interest_toggle", l, c) : l \in FormLeads, c \in InterestCodes}
        \cup {Data("set_status", l, "waiting") : l \in FormLeads}
        \cup {Data("set_segment", l, "private") : l \in FormLeads}
        \cup {Data("set_remind", l, mode) : l \in FormLeads, mode \in {"2h", "clear"}}
GuardPaging == {<<"l", "e", "a", "d", "s", ":", "0", ":", "2", "0">>, <<"l", "e", "a", "d", "s", ":", "x">>}
Pressed == \E u \in Users, d \in GuardData : OnCallback(u, d)
Paged == \E u \in Users, d \in GuardPaging : BotOnCallbackLeads(u, d)
NextGuard == Register \/ Text \/ Pressed \/ Paged
SpecGuard == Init /\ [][NextGuard]_vars

\* admins opening note entry on a lead card, sending /start and sending texts
NoteEntry == \E u \in Users, l \in FormLeads : OnCallback(u, Data("lead_note", l, ""))
Start == \E u \in Users : CmdStart(u)
NextNoteEntry == Register \/ NoteEntry \/ Start \/ Text
SpecNoteEntry == Init /\ [][NextNoteEntry]_vars

\* admins, suppliers and clients pressing order and cart buttons while orders
\* and products are created
RoleStatuses == {"confirmed", "shipped", "received", "paid", NoStatus}
RoleCallbacks ==
    {Data("setstat", o, st) : o \in OrderArgs, st \in RoleStatuses}
        \cup {Data("order", 1, ""), Data("noop", 0, ""), Data("prod", 0, "board")}
Pressing == \E u \in ShopUsers, d \in RoleCallbacks : CatalogBotOnCallback(u, d)
NextRoles == CreatingOne \/ Pressing
SpecRoles == Init /\ [][NextRoles]_vars

\* reminders
NextReminders == Register \/ Remind \/ Due \/ Tick
SpecReminders == Init /\ [][NextReminders]_vars

(***************************************************************************)
(* Properties                                                              *)
(***************************************************************************)
\* the digits of a text, left to right
RECURSIVE DigitsOf(_)
DigitsOf(t) ==
    IF t = <<>> THEN <<>>
    ELSE IF Head(t) \in Digits THEN <<Head(t)>> \o DigitsOf(Tail(t)) ELSE DigitsOf(Tail(t))

PhoneExpected(r) ==
    LET d == IF r = None THEN <<>> ELSE DigitsOf(r)
    IN  IF \/ Len(d) = 11 /\ d[1] \in {"7", "8"}
           \/ Len(d) = 10
        THEN <<"+", "7">> \o SubSeq(d, Len(d) - 9, Len(d))
        ELSE <<>>

\* C1: normalize_phone(raw) is "+7" followed by the last 10 digits of raw when
\* raw has 11 digits the first of which is 8 or 7, or exactly 10 digits, and is
\* empty otherwise; a non-empty result is "+7" and exactly 10 digits.
C1_NormalizePhone ==
    result # Unset =>
        /\ result = PhoneExpected(raw)
        /\ result # <<>> =>
              /\ Len(result) = 12
              /\ result[1] = "+" /\ result[2] = "7"
              /\ \A i \in 3..12 : result[i] \in Digits

C1_Witness ==
    /\ result # Unset /\ result # <<>>
    /\ raw # None
    /\ Len(raw) > 11
    /\ Len(DigitsOf(raw)) = 11 /\ DigitsOf(raw)[1] = "8"

\* C2: POST /go/submit inserts exactly one lead, with the normalized phone, and
\* sets the lead_id cookie to its id, when consent is given and the phone
\* normalizes to a non-empty value; otherwise no row is created, no cookie is
\* set and the response redirects to the phone gate of the same model.
C2_SubmitPhone ==
    [][last'.op = "submit_phone" =>
          LET phone == last'.text
              agree == last'.s[1]
              model_code == last'.s[2]
              src == last'.s[3]
          IN  IF agree # NULL /\ PhoneExpected(phone) # <<>>
              THEN /\ Cardinality(DOMAIN leads' \ DOMAIN leads) = 1
                   /\ DOMAIN leads \subseteq DOMAIN leads'
                   /\ \A l \in DOMAIN leads : leads'[l] = leads[l]
                   /\ \A l \in DOMAIN leads' \ DOMAIN leads :
                         /\ leads'[l].phone = PhoneExpected(phone)
                         /\ resp'.lead_id = l
              ELSE /\ leads' = leads
                   /\ resp'.lead_id = NoCookie
                   /\ resp'.status = 303
                   /\ resp'.location = <<"/go/", model_code, "?src=", src>>]_vars

C2_Witness ==
    /\ last.op = "submit_phone"
    /\ Cardinality(DOMAIN leads) = 2
    /\ resp.lead_id = 2
    /\ leads[1].phone # leads[2].phone

\* a text with nothing but whitespace, and a text without its surrounding whitespace
Blank(t) == t = None \/ \A i \in DOMAIN t : t[i] \in Whitespace

Trimmed(t) ==
    LET solid == {i \in DOMAIN t : t[i] \notin Whitespace}
        first == CHOOSE i \in solid : \A j \in solid : i <= j
        final == CHOOSE i \in solid : \A j \in solid : j <= i
    IN  SubSeq(t, first, final)

\* texts joined by blank lines, the last of the sequence first
RECURSIVE NewestFirst(_)
NewestFirst(ts) ==
    IF ts = <<>> THEN <<>>
    ELSE IF Len(ts) = 1 THEN ts[1]
    ELSE ts[Len(ts)] \o <<"\n", "\n">> \o NewestFirst(SubSeq(ts, 1, Len(ts) - 1))

\* C3: append_lead_note with a non-blank text makes the note the trimmed text
\* when the note was empty, and otherwise the trimmed text, a blank line and the
\* previous note; so the note is always the appended texts, newest first,
\* joined by blank lines.
C3_NotePrepend ==
    /\ [](\A l \in DOMAIN leads : leads[l].note = NewestFirst(appended[l]))
    /\ [][(/\ last'.op = "append_lead_note"
            /\ last'.lead \in DOMAIN leads
            /\ ~Blank(last'.text)) =>
              LET l == last'.lead
                  t == Trimmed(last'.text)
              IN  /\ appended'[l] = Append(appended[l], t)
                  /\ leads'[l].note = IF leads[l].note = <<>>
                                       THEN t
                                       ELSE t \o <<"\n", "\n">> \o leads[l].note]_vars

C3_Witness ==
    /\ last.op = "append_lead_note"
    /\ last.lead \in DOMAIN leads
    /\ last.text = <<" ", "b", " ", "c", "\n">>
    /\ leads[last.lead].note = <<"b", " ", "c", "\n", "\n", "a">>

\* C4: append_lead_note with an empty, missing or whitespace-only text changes
\* no field of any lead.
C4_BlankNoteNoOp ==
    [][(last'.op = "append_lead_note" /\ Blank(last'.text)) => leads' = leads]_vars

C4_Witness ==
    /\ last.op = "append_lead_note"
    /\ last.text = <<" ", "\n">>
    /\ last.lead \in DOMAIN leads
    /\ leads[last.lead].note = <<"a">>
    /\ \E l \in DOMAIN leads : leads[l].last_contact_at = NoTime

\* the columns of a lead that neither set_lead_status nor set_lead_segment writes
SameButStatusSegmentContact(old, new) ==
    /\ new.phone = old.phone
    /\ new.source = old.source
    /\ new.model_code = old.model_code
    /\ new.name = old.name
    /\ new.note = old.note
    /\ new.remind_at = old.remind_at
    /\ new.created_at = old.created_at

\* C6: set_lead_status and set_lead_segment store any string: afterwards the
\* lead's status (segment) is that string and its last-contact timestamp is
\* now; its other columns and all other leads are unchanged.
C6_StatusSegmentAnyString ==
    [][(last'.op \in {"set_lead_status", "set_lead_segment"} /\ last'.lead \in DOMAIN leads) =>
          LET l == last'.lead
          IN  /\ DOMAIN leads' = DOMAIN leads
              /\ \A m \in DOMAIN leads \ {l} : leads'[m] = leads[m]
              /\ SameButStatusSegmentContact(leads[l], leads'[l])
              /\ leads'[l].last_contact_at = now
              /\ IF last'.op = "set_lead_status"
                 THEN leads'[l].status = last'.s /\ leads'[l].segment = leads[l].segment
                 ELSE leads'[l].segment = last'.s /\ leads'[l].status = leads[l].status]_vars

C6_Witness ==
    /\ last.op = "set_lead_status"
    /\ last.lead \in DOMAIN leads
    /\ leads[last.lead].status = "no-such-status"
    /\ leads[last.lead].segment = "no-such-segment"
    /\ leads[last.lead].note # <<>>
    /\ leads[last.lead].remind_at # NoTime
    /\ now > 0
    /\ \E l \in DOMAIN leads : leads[l].status = "new" /\ leads[l].last_contact_at = NoTime

\* the leads whose reminder is set and not later than now
HasDueReminder(l) == leads[l].remind_at # NoTime /\ leads[l].remind_at <= now

\* what every due_reminders(n) call returns: due leads only, each once, in
\* ascending reminder order, the earliest min(n, number of due leads) of them
DueResultOk(r, n) ==
    /\ \A i \in DOMAIN r : r[i] \in DOMAIN leads /\ HasDueReminder(r[i])
    /\ \A i, j \in DOMAIN r : i < j =>
          r[i] # r[j] /\ leads[r[i]].remind_at <= leads[r[j]].remind_at
    /\ Len(r) = Min(n, Cardinality({l \in DOMAIN leads : HasDueReminder(l)}))
    /\ \A l \in DOMAIN leads : (HasDueReminder(l) /\ l \notin Range(r)) =>
          \A i \in DOMAIN r : leads[r[i]].remind_at <= leads[l].remind_at

\* C7 as claimed: ... and a lead with a due reminder appears in every call.
C7_DueAlwaysListed ==
    [][last'.op = "due_reminders" =>
          /\ DueResultOk(due', last'.n)
          /\ \A l \in DOMAIN leads : HasDueReminder(l) => l \in Range(due')]_vars

\* C7, amended: due_reminders(limit) returns only leads whose reminder is set
\* and not later than now (so never a lead whose reminder is cleared), in
\* ascending reminder order, the earliest min(limit, number due) of them; a lead
\* with a due reminder appears in every call whose limit exceeds the number of
\* other leads with a due reminder not later than its own.
C7_DueReminders ==
    [][last'.op = "due_reminders" =>
          /\ DueResultOk(due', last'.n)
          /\ \A l \in DOMAIN leads :
                (/\ HasDueReminder(l)
                 /\ Cardinality({m \in DOMAIN leads \ {l} :
                        HasDueReminder(m) /\ leads[m].remind_at <= leads[l].remind_at})
                      < last'.n)
                => l \in Range(due')]_vars

C7_Witness ==
    /\ last.op = "due_reminders"
    /\ last.n = 1
    /\ Len(due) = 1
    /\ \E l \in DOMAIN leads \ {due[1]} :
          HasDueReminder(l) /\ leads[due[1]].remind_at < leads[l].remind_at
    /\ now = MaxTime

\* C9: replace_images(code, urls) on an existing model leaves the model with
\* exactly len(urls) image rows, the i-th url with sort order i, and images of
\* other models unchanged; get_model(code).images is the urls of the rows of the
\* model in sort order, so equal to urls.
C9_ReplaceImages ==
    [][/\ last'.op = "replace_images" =>
            \A code \in DOMAIN catalog_models : last'.s = code =>
                LET urls == last'.text
                IN  /\ raised' = NoError
                    /\ BagCardinality(RowsOf(catalog_images', code)) = Len(urls)
                    /\ \A i \in DOMAIN urls :
                          CopiesIn([model_code |-> code, url |-> urls[i], sort_order |-> i],
                                   catalog_images') = 1
                    /\ RowsNotOf(catalog_images', code) = RowsNotOf(catalog_images, code)
                    /\ \A r \in get_model(code)' : r.found /\ r.images = urls
       /\ last'.op = "get_model" =>
            \A code \in DOMAIN catalog_models : last'.s = code =>
                /\ fetched'.found
                /\ Len(fetched'.images) = BagCardinality(RowsOf(catalog_images, code))
                /\ \A i \in DOMAIN fetched'.images :
                      \E r \in DOMAIN RowsOf(catalog_images, code) :
                          r.url = fetched'.images[i] /\ r.sort_order = i]_vars

C9_Witness ==
    /\ last.op = "replace_images"
    /\ last.s = "polar-6"
    /\ last.text = <<"https://cdn/2.jpg", "https://cdn/1.jpg">>
    /\ "polar-6" \in DOMAIN catalog_models
    /\ BagCardinality(RowsOf(catalog_images, "taiga-4")) = 1

\* how many times a value occurs in a sequence
Occurrences(q, v) == Cardinality({i \in DOMAIN q : q[i] = v})

\* C10: replace_kits(code, kits) on an existing model leaves the model with
\* exactly the given (material, price) pairs as kit rows and other models' kits
\* unchanged; get_model(code).kits is the pairs of the rows of the model,
\* ordered by material.
C10_ReplaceKits ==
    [][/\ last'.op = "replace_kits" =>
            \A code \in DOMAIN catalog_models : last'.s = code =>
                LET kits == last'.text
                IN  /\ raised' = NoError
                    /\ BagCardinality(RowsOf(catalog_kits', code)) = Len(kits)
                    /\ \A k \in KitChoices :
                          CopiesIn([model_code |-> code, material |-> k.material,
                                    price |-> k.price], catalog_kits')
                            = Occurrences(kits, k)
                    /\ RowsNotOf(catalog_kits', code) = RowsNotOf(catalog_kits, code)
       /\ last'.op = "get_model" =>
            \A code \in DOMAIN catalog_models : last'.s = code =>
                /\ fetched'.found
                /\ Len(fetched'.kits) = BagCardinality(RowsOf(catalog_kits, code))
                /\ \A k \in KitChoices :
                      Occurrences(fetched'.kits, k) =
                          CopiesIn([model_code |-> code, material |-> k.material,
                                    price |-> k.price], catalog_kits)
                /\ \A i, j \in DOMAIN fetched'.kits :
                      i < j => Collate(fetched'.kits[i].material)
                                 <= Collate(fetched'.kits[j].material)]_vars

C10_Witness ==
    /\ last.op = "replace_kits"
    /\ last.s = "polar-6"
    /\ last.text = <<[material |-> "steel", price |-> 20], [material |-> "birch", price |-> 10]>>
    /\ "polar-6" \in DOMAIN catalog_models
    /\ BagCardinality(RowsOf(catalog_kits, "taiga-4")) = 2

\* the last committed status of a lead
LastCommitted(l) ==
    LET idx == {i \in DOMAIN committed : committed[i].lead = l}
    IN  committed[CHOOSE i \in idx : \A j \in idx : j <= i].status

\* C8: concurrent set_lead_status calls on one lead all complete, none raises,
\* and the lead's status is the one of the call that committed last.
C8_LastWriteWins ==
    /\ [](raised = NoError)
    /\ [](\A l \in DOMAIN leads :
            (\E i \in DOMAIN committed : committed[i].lead = l) =>
                leads[l].status = LastCommitted(l))
    /\ \A p \in Procs : (txn[p].pc = "connected") ~> (txn[p].pc = "idle")

C8_Witness ==
    /\ \A p \in Procs : txn[p].pc = "idle"
    /\ Len(committed) = 2
    /\ committed[1].lead = committed[2].lead
    /\ committed[1].lead \in DOMAIN leads
    /\ committed[1].with = {committed[2].proc}
    /\ committed[1].status # committed[2].status
    /\ leads[committed[1].lead].status = committed[2].status

\* C5 as stated: a text message in the form steps full_name or city stores the
\* value through update_lead_profile, which stamps the lead's last contact.
C5_ProfileStepStored ==
    [][(last'.op = "on_text" /\ is_admin(last'.n) /\ last'.s \in {"full_name", "city"}
            /\ last'.lead \in DOMAIN leads)
        => (raised' = NoError /\ leads'[last'.lead].last_contact_at = now')]_vars

\* every kit row and every image row refers to a model that exists
ChildrenHaveModel ==
    /\ \A r \in DOMAIN catalog_kits : r.model_code \in DOMAIN catalog_models
    /\ \A r \in DOMAIN catalog_images : r.model_code \in DOMAIN catalog_models

\* delete_model(code) leaves no kit row and no image row of that code
DeleteCascades ==
    [][last'.op = "delete_model" =>
        \A c \in CatalogCodes : last'.s = c =>
            /\ c \notin DOMAIN catalog_models'
            /\ RowsOf(catalog_kits, c)' = EmptyBag
            /\ RowsOf(catalog_images, c)' = EmptyBag]_vars

\* C11 as stated: the cascade, the invariant, and replace_kits / replace_images
\* for a code without a model row always fail, leaving the store unchanged.
C11_ReplaceWithoutModelFails ==
    /\ []ChildrenHaveModel
    /\ DeleteCascades
    /\ [][(last'.op \in {"replace_kits", "replace_images"}
                /\ \E c \in CatalogCodes : last'.s = c /\ c \notin DOMAIN catalog_models)
            => (raised' # NoError
                /\ UNCHANGED <<catalog_models, catalog_kits, catalog_images>>)]_vars

\* C11 (amended): delete_model(code) leaves no kit or image row of that code;
\* every kit and image row always refers to an existing model; replace_kits or
\* replace_images for a code without a model row leaves the store unchanged,
\* failing when the list is non-empty and succeeding when it is empty.
C11_CascadeDelete ==
    /\ []ChildrenHaveModel
    /\ DeleteCascades
    /\ [][(last'.op \in {"replace_kits", "replace_images"}
                /\ \E c \in CatalogCodes : last'.s = c /\ c \notin DOMAIN catalog_models)
            => ((raised' # NoError <=> last'.text # <<>>)
                /\ UNCHANGED <<catalog_models, catalog_kits, catalog_images>>)]_vars

\* a model with a kit and an image was just deleted while the other model keeps its rows
C11_Witness ==
    /\ last.op = "delete_model"
    /\ last.n = 2
    /\ catalog_kits # EmptyBag
    /\ catalog_images # EmptyBag

\* C12: insert_client with a Telegram id that already has a client returns that
\* client's id and changes no row; no two client rows share a Telegram id, also
\* when registrations run concurrently.
C12_InsertClientIdempotent ==
    /\ [](\A c, d \in DOMAIN clients :
            (clients[c].tg_id = clients[d].tg_id /\ clients[c].tg_id # NoTg) => c = d)
    /\ [][(last'.op = "insert_client" /\ last'.n \notin {NoTg, 0} /\ ClientsOf(last'.n) # {})
            => (/\ ret' \in ClientsOf(last'.n)
                /\ raised' = NoError
                /\ UNCHANGED <<clients, ctxn>>)]_vars

\* a second registration with another phone returned the client of the first
C12_Witness ==
    /\ last.op = "insert_client"
    /\ ret \in DOMAIN clients
    /\ clients[ret].tg_id = last.n
    /\ clients[ret].phone # last.s
    /\ \A p \in Callers : ctxn[p].pc = "idle"

\* C13: update_order_total writes the sum of the order's item amounts (0 without
\* items); only create_order (as 0) and update_order_total write total_amount.
C13_OrderTotal ==
    /\ [][last'.op = "update_order_total" =>
            \A o \in DOMAIN orders : last'.lead = o =>
                orders'[o].total_amount = SumAmount(ItemsOf(o))]_vars
    /\ [][\A o \in DOMAIN orders' :
            IF o \in DOMAIN orders
            THEN orders'[o].total_amount # orders[o].total_amount
                    => last'.op = "update_order_total"
            ELSE orders'[o].total_amount = 0 /\ last'.op = "create_order"]_vars

\* the total 25.00 of the items 2 x 10.00 and 1 x 5.00 was just written
C13_Witness ==
    /\ last.op = "update_order_total"
    /\ last.lead \in DOMAIN orders
    /\ Cardinality(ItemsOf(last.lead)) = 2
    /\ orders[last.lead].total_amount = 2500

\* no later step changes an item; price changes leave items and orders alone
ItemsFrozen ==
    /\ [][\A i \in DOMAIN order_items :
            i \in DOMAIN order_items' /\ order_items'[i] = order_items[i]]_vars
    /\ [][last'.op \in {"upsert_product", "replace_products"}
            => UNCHANGED <<order_items, orders>>]_vars

\* C14 as stated: the stored amount is exactly quantity x price.
C14_AmountExactProduct ==
    /\ ItemsFrozen
    /\ [][(last'.op = "add_order_item" /\ raised' = NoError) =>
            \A i \in DOMAIN order_items' \ DOMAIN order_items :
                /\ order_items'[i].quantity = last'.text[1]
                /\ order_items'[i].price = last'.text[2]
                /\ order_items'[i].amount * 100 = last'.text[1] * last'.text[2]]_vars

\* C14 (amended): add_order_item stores quantity x price of its arguments rounded
\* to two decimals; no later operation changes an item's quantity, price or
\* amount, and product price changes leave items and order totals unchanged.
C14_ItemAmountFixed ==
    /\ ItemsFrozen
    /\ [][(last'.op = "add_order_item" /\ raised' = NoError) =>
            \A i \in DOMAIN order_items' \ DOMAIN order_items :
                /\ order_items'[i].quantity = last'.text[1]
                /\ order_items'[i].price = last'.text[2]
                /\ order_items'[i].amount * 100 - last'.text[1] * last'.text[2] \in -49..50]_vars

\* the price of a product was changed after an item of it was ordered at another price
C14_Witness ==
    /\ last.op \in {"upsert_product", "replace_products"}
    /\ \E i \in DOMAIN order_items :
          /\ order_items[i].product_id \in DOMAIN products
          /\ order_items[i].price # products[order_items[i].product_id].price
          /\ order_items[i].amount = 2503
          /\ order_items[i].order_id \in DOMAIN orders
          /\ orders[order_items[i].order_id].total_amount = 2503

\* a timestamp of an order that was set stays set
StampsKept ==
    [][\A o \in DOMAIN orders :
          /\ orders[o].shipped_at # NoTime => orders'[o].shipped_at # NoTime
          /\ orders[o].delivered_at # NoTime => orders'[o].delivered_at # NoTime
          /\ orders[o].paid_at # NoTime => orders'[o].paid_at # NoTime]_vars

\* C15 as stated: set_order_status(order, s) sets the status to s for any string
\* s, stamps shipped_at / delivered_at / paid_at only for "shipped" / "delivered" /
\* "paid", keeps the three timestamps otherwise, and never clears a timestamp.
C15_SetOrderStatus ==
    /\ StampsKept
    /\ [][last'.op = "set_order_status" =>
            \A o \in DOMAIN orders : last'.lead = o =>
                /\ orders'[o].status = last'.s
                /\ orders'[o].shipped_at =
                      IF last'.s = "shipped" THEN now ELSE orders[o].shipped_at
                /\ orders'[o].delivered_at =
                      IF last'.s = "delivered" THEN now ELSE orders[o].delivered_at
                /\ orders'[o].paid_at =
                      IF last'.s = "paid" THEN now ELSE orders[o].paid_at
                /\ orders'[o].total_amount = orders[o].total_amount]_vars

\* C16: record_payment on an existing order inserts one payment row and sets
\* the order to "paid" with paid_at = now, whatever the amount and the previous
\* status; the total and the items stay as they are.
C16_RecordPayment ==
    [][last'.op = "record_payment" =>
        \A o \in DOMAIN orders : last'.lead = o =>
            /\ raised' = NoError
            /\ DOMAIN payments' = DOMAIN payments \cup {FreshId(payments)}
            /\ FreshId(payments) \notin DOMAIN payments
            /\ payments'[FreshId(payments)].order_id = o
            /\ payments'[FreshId(payments)].amount = last'.n
            /\ \A q \in DOMAIN payments : payments'[q] = payments[q]
            /\ orders' = [orders EXCEPT ![o].status = "paid", ![o].paid_at = now]
            /\ UNCHANGED order_items]_vars

\* a payment smaller than the total of a shipped order was just recorded
C16_Witness ==
    /\ last.op = "record_payment"
    /\ last.lead \in DOMAIN orders
    /\ last.n < orders[last.lead].total_amount
    /\ orders[last.lead].status = "paid"
    /\ orders[last.lead].paid_at = now
    /\ orders[last.lead].shipped_at # NoTime
    /\ Cardinality(DOMAIN payments) = 1

\* the positions of a list that hold an item with a code and a name
ValidAt(items) == {k \in DOMAIN items : items[k].code # "" /\ items[k].name # ""}

\* the last item of a list with a code and a name that carries the code
LastItem(items, code) ==
    items[CHOOSE k \in ValidAt(items) :
            /\ items[k].code = code
            /\ \A j \in ValidAt(items) : items[j].code = code => j <= k]

ImportedCodes(items) == {items[k].code : k \in ValidAt(items)}

NonHash(data) == [k \in DOMAIN data \ {HashKey} |-> data[k]]

\* the key=value lines of a payload in ascending order, joined by line breaks
RECURSIVE JoinLines(_)
JoinLines(q) ==
    IF q = <<>> THEN <<>>
    ELSE IF Len(q) = 1 THEN q[1]
    ELSE q[1] \o <<"\n">> \o JoinLines(Tail(q))

CheckString(data) ==
    LET lines == {k \o <<"=">> \o data[k] : k \in DOMAIN NonHash(data)}
    IN  JoinLines(CHOOSE q \in [1..Cardinality(lines) -> lines] :
                    /\ \A x \in lines : \E i \in DOMAIN q : q[i] = x
                    /\ \A i, j \in DOMAIN q : i < j => StrLess(q[i], q[j]))

\* the payload passes exactly when its hash is the keyed digest of its other fields
PassesOnDigest ==
    verified # "unset" =>
        (verified = "pass" <=>
            /\ HashKey \in DOMAIN query
            /\ query[HashKey] =
                  hmac_hexdigest(sha256(TELEGRAM_BOT_TOKEN), CheckString(query)))

\* no key or value of the payload holds a line break
Plain(data) ==
    \A k \in DOMAIN NonHash(data) :
        /\ \A i \in DOMAIN k : k[i] # "\n"
        /\ \A i \in DOMAIN data[k] : data[k][i] # "\n"

Signed(data) ==
    /\ HashKey \in DOMAIN data
    /\ data[HashKey] = hmac_hexdigest(sha256(TELEGRAM_BOT_TOKEN), CheckString(data))

\* the payload names a user of the allow-list
Allowed(data) ==
    \/ IdKey \in DOMAIN data /\ data[IdKey] = <<"5">>
    \/ IdKey \notin DOMAIN data /\ 0 \in get_admin_ids

\* the payload names a user outside the allow-list
Outside(data) ==
    \/ IdKey \in DOMAIN data /\ data[IdKey] = <<"7">>
    \/ IdKey \notin DOMAIN data /\ 0 \notin get_admin_ids

HasCookie(lead_id) == lead_id # NoCookie /\ lead_id # EmptyCookie

\* the drawings URL stored for the model, "" when there is none
StoredDrawings(code) ==
    IF code \in DOMAIN catalog_models THEN catalog_models[code].drawings_url ELSE ""

\* C20: GET /drawings/{model_code} renders the page, with the drawings URL of the
\* model, only for a request with a lead_id cookie; without the cookie the answer
\* is a redirect to /go/{model_code}?src=drawings that holds no drawings URL; with
\* the cookie the answer is 404 when the model is missing or has no drawings URL.
C20_DrawingsGate ==
    [][\A k \in Cookies, c \in CatalogCodes :
        (last'.op = "drawings_page" /\ last'.lead = k /\ last'.s = c) =>
            /\ ~HasCookie(k) =>
                  page' = [status |-> 303, location |-> <<"/go/", c, "?src=drawings">>,
                           drawings_url |-> ""]
            /\ (HasCookie(k) /\ StoredDrawings(c) = "") =>
                  (page'.status = 404 /\ page'.drawings_url = "")
            /\ (HasCookie(k) /\ StoredDrawings(c) # "") =>
                  (page'.status = 200 /\ page'.drawings_url = StoredDrawings(c))]_vars

\* a request without the cookie for a model that has drawings was sent to the phone gate
C20_Witness ==
    /\ last.op = "drawings_page"
    /\ last.lead = NoCookie
    /\ StoredDrawings(last.s) # ""
    /\ page.status = 303
    /\ page.drawings_url = ""

\* "leads:<offset>:<limit>" with integers for offset and limit
WellFormedPaging ==
    {<<"l", "e", "a", "d", "s", ":">> \o a \o <<":">> \o b :
        a \in {<<"0">>, <<"2", "0">>, <<"-", "2">>}, b \in {<<"0">>, <<"2", "0">>, <<"-", "2">>}}

\* the last callback was a malformed leads callback of an admin
MalformedPaging ==
    /\ last.lead \in ADMIN_IDS
    /\ startswith(last.text, <<"l", "e", "a", "d", "s", ":">>)
    /\ last.text \notin WellFormedPaging

MalformedAnswered == alert = "pagination_error" /\ calls = <<>> /\ raised = NoError

\* the handler of src/app/bot.py answers a malformed leads callback with the alert
AppBotPagingCaught ==
    (last.op = "app_bot_on_callback" /\ MalformedPaging) => MalformedAnswered

\* C21: a leads callback with the wrong number of tokens or a non-integer offset
\* or limit is answered with the pagination-error alert, calls no store function
\* and raises nothing, in the bot of src/app/bot.py and in the bot of src/bot.py.
C21_MalformedPaging ==
    (last.op \in {"app_bot_on_callback", "bot_on_callback"} /\ MalformedPaging)
        => MalformedAnswered

\* C22: the plain text an admin sends right after /start is handled as a menu
\* command: it is not appended to a lead's note, also when the admin had opened
\* note entry on a lead card before.
C22_StartLeavesNoteEntry ==
    [][(last.op = "cmd_start" /\ last'.op = "on_text" /\ last'.n = last.n)
          => UNCHANGED <<leads, appended>>]_vars

\* C23: a setstat callback of a supplier who is no admin changes an order only
\* when the status is confirmed, shipped or received, and then sets this status;
\* any other status is answered with an alert and changes no order.  No callback
\* of a client changes an order.
C23_SupplierSetStatus ==
    [][\A u \in ShopUsers :
         (last'.op = "catalog_bot_on_callback" /\ last'.n = u) =>
            /\ (u \notin ADMIN_IDS /\ u \notin SUPPLIER_IDS) => orders' = orders
            /\ (u \in SUPPLIER_IDS \ ADMIN_IDS /\ last'.s = "setstat") =>
                 \A o \in OrderArgs, st \in RoleStatuses :
                    (last'.lead = o /\ last'.text = <<st>>) =>
                       IF st \in {"confirmed", "shipped", "received"}
                       THEN /\ o \in DOMAIN orders => orders'[o].status = st
                            /\ \A x \in DOMAIN orders \ {o} : orders'[x] = orders[x]
                       ELSE /\ orders' = orders
                            /\ alert' \in {"bad_status", "bad_format"}]_vars

\* a supplier was refused the status paid on an existing order
C23_Witness ==
    /\ last.op = "catalog_bot_on_callback"
    /\ last.n \in SUPPLIER_IDS \ ADMIN_IDS
    /\ last.s = "setstat"
    /\ last.text = <<"paid">>
    /\ last.lead \in DOMAIN orders
    /\ alert = "bad_status"
    /\ orders[last.lead].status # "paid"

\* C24: in every state of the order store an order with status "paid" has paid_at
\* set, one with status "shipped" has shipped_at set and one with status
\* "delivered" has delivered_at set.
C24_StatusHasStamp ==
    \A o \in DOMAIN orders :
        /\ orders[o].status = "paid" => orders[o].paid_at # NoTime
        /\ orders[o].status = "shipped" => orders[o].shipped_at # NoTime
        /\ orders[o].status = "delivered" => orders[o].delivered_at # NoTime

\* a paid order was moved on to shipped: it carries both stamps, so a stamp does
\* not tell the status
C24_Witness ==
    \E o \in DOMAIN orders :
        /\ orders[o].status = "shipped"
        /\ orders[o].shipped_at # NoTime
        /\ orders[o].paid_at # NoTime
        /\ Cardinality(DOMAIN payments) = 1

\* the texts committed to a lead's note, in commit order
RECURSIVE NoteLog(_, _)
NoteLog(log, l) ==
    IF log = <<>> THEN <<>>
    ELSE IF Head(log).lead = l
         THEN <<Head(log).text>> \o NoteLog(Tail(log), l)
         ELSE NoteLog(Tail(log), l)

\* C25: concurrent append_lead_note calls on one lead never lose a note: after
\* any commits, under every interleaving, the note is every committed text in
\* commit order, newest first, joined by blank lines above the previous note,
\* and every call that opened its connection commits.
C25_NoNoteLost ==
    /\ [](\A l \in DOMAIN leads : leads[l].note = NewestFirst(NoteLog(committed, l)))
    /\ \A p \in Procs : (txn[p].pc # "idle") ~> (txn[p].pc = "idle")

\* two overlapping appends committed on a lead whose note already held a text
C25_Witness ==
    /\ Len(committed) >= 3
    /\ committed[1].lead = committed[2].lead /\ committed[2].lead = committed[3].lead
    /\ committed[3].proc \in committed[2].with
    /\ committed[2].text # committed[3].text
    /\ leads[committed[1].lead].note =
           committed[3].text \o <<"\n", "\n">> \o committed[2].text
                             \o <<"\n", "\n">> \o committed[1].text

\* C26: in the CRM bot a text or a callback from a user who is not in the admin
\* list reaches no store call: no lead changes (status, segment, reminder,
\* note), no form entry or interest selection is created or modified, the
\* paging callback calls neither count_leads nor list_leads, nothing is raised.
C26_NonAdminRefused ==
    [][/\ (last'.op \in {"on_text", "on_callback"} /\ last'.n \notin ADMIN_IDS) =>
             /\ UNCHANGED <<leads, appended, FORM_STATE, INTEREST_TMP>>
             /\ raised' = NoError
       /\ (last'.op = "bot_on_callback" /\ last'.lead \notin ADMIN_IDS) =>
             /\ calls' = <<>>
             /\ raised' = NoError
             /\ UNCHANGED <<leads, appended, FORM_STATE, INTEREST_TMP>>]_vars

\* a user outside the admin list pressed "set status" on an existing lead
\* while an admin was in a form; the status was not set
C26_Witness ==
    /\ last.op = "on_callback" /\ last.s = "set_status"
    /\ last.n \notin ADMIN_IDS
    /\ last.lead \in DOMAIN leads
    /\ leads[last.lead].status # "waiting"
    /\ \E u \in ADMIN_IDS : FORM_STATE[u] # NoForm

\* every quantity held in a cart is a number above zero
CartPositive ==
    \A u \in ShopUsers : \A c \in DOMAIN CLIENT_STATE[u].cart :
        CLIENT_STATE[u].cart[c] # NaN /\ CLIENT_STATE[u].cart[c] > 0

\* a quantity text that is no number or no positive number leaves the cart
\* unchanged and the client in the quantity step
QuantityRefused ==
    (/\ last'.op = "catalog_bot_on_text"
     /\ last'.s = "enter_qty"
     /\ is_client(last'.n)
     /\ LET q == parse_float(Dotted(last'.text))
        IN  ~q.ok \/ q.value = NaN \/ q.value <= 0)
        => UNCHANGED CLIENT_STATE

\* an address from a registered client with a non-empty cart ends in exactly
\* one new order with one item per cart product that exists, the items' sum as
\* total and status "submitted", the cart empty and no pending step
CheckoutPlaced ==
    (last'.op = "checkout_submit") =>
        LET o == checkout.order_id
            u == checkout.user
            cart == CLIENT_STATE[u].cart
            existing == {c \in DOMAIN cart : get_product_by_code(c) # {}}
        IN  /\ o \in DOMAIN orders'
            /\ Cardinality(ItemsOf(o)) = Cardinality(existing)
            /\ \A c \in existing : \E i \in ItemsOf(o) :
                   /\ order_items[i].product_id \in get_product_by_code(c)
                   /\ order_items[i].quantity = cart[c]
            /\ orders'[o].total_amount = SumAmount(ItemsOf(o))
            /\ orders'[o].status = "submitted"
            /\ DOMAIN CLIENT_STATE'[u].cart = {}
            /\ CLIENT_STATE'[u].step = "none"

\* an address with an empty cart or from an unregistered client creates no
\* order and clears the pending step; an accepted one creates exactly one order
AddressHandled ==
    (last'.op = "catalog_bot_on_text" /\ last'.s = "enter_address" /\ is_client(last'.n)
        /\ strip(last'.text) # <<>>) =>
        LET u == last'.n
        IN  IF get_client_by_tg_id(u) = {} \/ DOMAIN CLIENT_STATE[u].cart = {}
            THEN orders' = orders /\ CLIENT_STATE'[u].step = "none"
            ELSE Cardinality(DOMAIN orders') = Cardinality(DOMAIN orders) + 1

\* C27: client checkout in the multi-role bot: every quantity held in a cart is
\* strictly positive, a non-numeric or non-positive quantity input leaves the
\* cart unchanged and the client in the quantity step; an address with a
\* registered client and a non-empty cart creates exactly one order with one
\* item per existing cart product, their sum as total, status "submitted", an
\* empty cart and no pending step; otherwise no order and the step is cleared.
C27_ClientCheckout ==
    /\ []CartPositive
    /\ [][QuantityRefused]_vars
    /\ [][AddressHandled]_vars
    /\ [][CheckoutPlaced]_vars

\* the part of the checkout that does not depend on the quantities held
C27_CheckoutSteps == [][AddressHandled /\ CheckoutPlaced]_vars

\* the rows a form's kits and images become
KitsOfForm(f) == SeqToBag(KitRows(SaveCode, f.kits))
ImagesOfForm(f) == SeqToBag(ImageRows(SaveCode, f.urls))

\* a later step of a save whose model row has been deleted meanwhile
StepWithoutModel(r) ==
    /\ last'.op \in {"save_kits", "save_images"}
    /\ last'.lead = r
    /\ saving[r].code \notin DOMAIN catalog_models

AdminRoutes ==
    {"admin_models", "admin_model_new", "admin_model_edit", "admin_model_save",
     "admin_model_delete"}

\* C30: every /admin/models route called with a session without the admin flag
\* fails with 401 before any store call and leaves the catalog unchanged;
\* /admin/logout clears the session, and a session gets the flag only by a
\* successful Telegram login.
C30_AdminOnly ==
    /\ [][(last'.op \in AdminRoutes /\ ~session.is_admin) =>
              /\ page'.status = 401
              /\ raised' = "HTTPException"
              /\ calls' = <<>>
              /\ UNCHANGED <<catalog_models, catalog_kits, catalog_images, saving>>]_vars
    /\ [][last'.op = "admin_logout" => session' = NoSession]_vars
    /\ [][(~session.is_admin /\ session'.is_admin) =>
              /\ last'.op = "admin_auth_telegram"
              /\ verified' = "pass"
              /\ page'.status = 303]_vars

\* after a logout a delete of a model that exists was refused with 401
C30_Witness ==
    /\ last.op = "admin_model_delete"
    /\ ~session.is_admin
    /\ page.status = 401
    /\ last.s \in DOMAIN catalog_models
    /\ BagCardinality(catalog_kits) > 0

\* C29: in the lead form a user's pending entry is removed when the form reaches
\* the done step and when the user leaves through the Cancel / back-to-card
\* button (callback lead:<id>), so a text sent after leaving is handled as a menu
\* command and is not written to the lead; entries are keyed by user id, so a
\* user's form actions never change another user's entry.
C29_FormEntryLifetime ==
    /\ [][(last'.op = "on_text" /\ is_admin(last'.n) /\ last'.s = "note") =>
              FORM_STATE'[last'.n] = NoForm]_vars
    /\ [][(last'.op = "on_callback" /\ is_admin(last'.n) /\ last'.s = "lead") =>
              FORM_STATE'[last'.n] = NoForm]_vars
    /\ [][(last.op = "on_callback" /\ last.s = "lead"
              /\ last'.op = "on_text" /\ last'.n = last.n) =>
              (UNCHANGED <<leads, appended>> /\ raised' = NoError)]_vars
    /\ [][\A u \in Users : (last'.op \in {"on_text", "on_callback"} /\ last'.n # u) =>
              FORM_STATE'[u] = FORM_STATE[u]]_vars

\* the parts of C29 that do not involve the Cancel button
C29_DoneAndKeyed ==
    /\ [][(last'.op = "on_text" /\ is_admin(last'.n) /\ last'.s = "note") =>
              FORM_STATE'[last'.n] = NoForm]_vars
    /\ [][\A u \in Users : (last'.op \in {"on_text", "on_callback"} /\ last'.n # u) =>
              FORM_STATE'[u] = FORM_STATE[u]]_vars

====
